---- MODULE Spec2Model ----
(***************************************************************************)
(* Model of the mock hexapod controller of ts_hexgui                       *)
(* (python/lsst/ts/hexgui/mock_controller.py).                             *)
(*                                                                         *)
(* Numbers.  The controller works on floats; the model uses exact          *)
(* fixed-point integers:                                                   *)
(*   - linear pose axes x, y, z in microns,                                *)
(*   - angular pose axes u, v, w in millidegrees (0.001 deg),              *)
(*   - a strut length as a record [r3, r1, e] that stands for              *)
(*     (r3 * sqrt(3) + r1) * 10^e, so that the sqrt(3) factor of the       *)
(*     transform and the unit conversions stay exact,                      *)
(*   - the motor current in 0.1 A, velocities in 0.0001 units.             *)
(***************************************************************************)
EXTENDS Integers, Sequences, FiniteSets, TLC

VARIABLES
    telemetry,            \* self.telemetry (Telemetry struct)
    config,               \* self.config (Config struct)
    commanded_position,   \* self._commanded_position (None or 6 values)
    is_csc_commander,     \* self._is_csc_commander
    command_status,       \* reply to the last command: its method and ack
    move_start,           \* history: the measured pose at the start of the move
                          \* in progress (zeros when no move is in progress)
    hexapod_type,         \* hexapod_type given to the constructor
    telemetry_raised,     \* the last call of update_telemetry raised to its caller
    in_write_config,      \* "none", or the method of the command whose handler is
                          \* suspended in `await self.write_config()`
    float64_move,         \* a move computed in the float64 arithmetic of the code
    control_panel,        \* ControlPanel: selection, connection, position in
                          \* _callback_send_command, commands sent by it
    model_status          \* Model._status and the signals of the last report

vars == <<telemetry, config, commanded_position, is_csc_commander, command_status,
          move_start, hexapod_type, telemetry_raised, in_write_config,
          float64_move, control_panel, model_status>>

(***************************************************************************)
(* Program constants                                                       *)
(***************************************************************************)
NUM_STRUT == 6
NUM_DRIVE == 3
NUM_DEGREE_OF_FREEDOM == 6

MAX_ACTUATOR_RANGE_MIC == 14100
MAX_ACCEL_LIMIT == 500
\* velocities in units of 0.0001 (um/sec or deg/sec)
MAX_LINEAR_VEL_LIMIT == 20000000
MAX_ANGULAR_VEL_LIMIT == 1146

\* camera hexapod position limits (um, mdeg)
CAM_XY_MAX_MIC == 11400
CAM_Z_MIN_MIC == -13100
CAM_Z_MAX_MIC == 13100
CAM_UV_MAX_DEG == 360
CAM_W_MIN_DEG == -100
CAM_W_MAX_DEG == 100
M2_XY_MAX_MIC == 10500
M2_Z_MIN_MIC == -8900
M2_Z_MAX_MIC == 8900
M2_UV_MAX_DEG == 175
M2_W_MIN_DEG == -50
M2_W_MAX_DEG == 50
MAX_PIVOT_X_MIC == 500000
MAX_PIVOT_Y_MIC == 500000
MAX_PIVOT_Z_MIC == 3500000

\* MockController class constants
STRUT_CURRENT == 8
BUS_VOLTAGE == 330
STRUT_SPEED == 500
PIVOT == <<0, 0, -703000>>
CYCLE_MOVE_POSITION_UM == 100
CYCLE_MOVE_POSITION_DEG == 10

\* status word patterns of update_telemetry
STATUS_WORD_ENABLED == 1585        \* 0x631
STATUS_WORD_DISABLED == 1648       \* 0x670
AMPLIFIER_MOVE_BIT == 16384        \* 0x4000
INPUT_PIN_STATES == 229600         \* 0x380E0
COPLEY_FAULT_STATUS == 61440       \* 0xF000

\* MTHexapod.ApplicationStatus flags
EUI_CONNECTED == 4                 \* bit 2
SYNC_MODE == 16                    \* bit 4
DDS_COMMAND_SOURCE == 1024         \* bit 10, 0x400

\* None, for self._commanded_position: the empty sequence
None == << >>

(***************************************************************************)
(* Bounds of the model                                                     *)
(***************************************************************************)
\* A staged pose is at most MaxReach cycle steps away from zero on an axis.
MaxReach == 3

Abs(n) == IF n < 0 THEN -n ELSE n

Sign(n) == IF n > 0 THEN 1 ELSE IF n < 0 THEN -1 ELSE 0

Rep(v, n) == [i \in 1..n |-> v]

\* Step of pose axis i (1..3 linear, 4..6 angular).
AxisStep(i) == IF i <= 3 THEN CYCLE_MOVE_POSITION_UM ELSE CYCLE_MOVE_POSITION_DEG

\* word & bit # 0, for a bit mask with a single bit set.
HasBit(word, bit) == (word \div bit) % 2 = 1

\* word | bit, for a bit mask with a single bit set.
BitOr(word, bit) == IF HasBit(word, bit) THEN word ELSE word + bit

(***************************************************************************)
(* Inputs: the parameters of the commands                                  *)
(***************************************************************************)
\* Parameter vectors of the position set command (x, y, z in um; u, v, w in
\* mdeg): the current pose, one step exactly (x, u), several steps (y, v),
\* a non-multiple of the step (z), less than a step (w), both directions.
PositionParams ==
    { <<0, 0, 0, 0, 0, 0>>,
      <<100, 200, 250, 10, -20, 5>> }

\* Parameter vectors of the position offset command.
OffsetParams ==
    { <<-50, 0, 100, 0, 5, -10>> }

\* The smaller inputs of the specification with every command.
PositionParamsAll ==
    { <<0, 0, 150, 0, -5, 0>> }

OffsetParamsAll ==
    { <<0, 0, -100, 0, 0, 0>> }

\* Inputs of the specification of the position envelope: w = 0.105 deg is
\* outside the envelope (CAM_W_MAX_DEG = 0.1 deg).
PositionParamsFar ==
    { <<0, 0, 0, 0, 0, 0>>,
      <<0, 0, 0, 0, 0, 105>> }

OffsetParamsFar ==
    { <<0, 0, 50, 0, 0, -5>> }

InReach(pose) == \A i \in 1..NUM_DEGREE_OF_FREEDOM : Abs(pose[i]) <= MaxReach * AxisStep(i)

Pose == telemetry.measured_xyz \o telemetry.measured_uvw

(***************************************************************************)
(* Coordinate transform                                                    *)
(***************************************************************************)
\* One strut position in metres: (z*sqrt(3) + rz + x_or_y + ry_or_rx).
\* UM_TO_M = 1e-6 on the microns, DEG_TO_M_SCALE_FACTOR = 1e-3 on the
\* degrees (= 1e-6 on the millidegrees): all terms carry exponent -6.
StrutOf(z, rz, lin, ang) == [r3 |-> z, r1 |-> rz + lin + ang, e |-> -6]

\* Mutant: every strut takes the x and ry terms.
_hexapod_position_to_strut_position_same(p) ==
    [idx \in 1..NUM_STRUT |-> StrutOf(p[3], p[6], p[1], p[5])]

_hexapod_position_to_strut_position(p) ==
    << StrutOf(p[3], p[6], p[1], p[5]),
       StrutOf(p[3], p[6], p[2], p[4]),
       StrutOf(p[3], p[6], p[1], p[5]),
       StrutOf(p[3], p[6], p[2], p[4]),
       StrutOf(p[3], p[6], p[1], p[5]),
       StrutOf(p[3], p[6], p[2], p[4]) >>

\* strut_position * M_TO_UM
M_TO_UM(s) == [s EXCEPT !.e = s.e + 6]

(***************************************************************************)
(* The controller as a value, and the handlers as functions of it          *)
(***************************************************************************)
Ctl == [telemetry |-> telemetry, config |-> config,
        commanded_position |-> commanded_position,
        is_csc_commander |-> is_csc_commander,
        written |-> FALSE, config_written |-> << >>]

Ok(s) == [ok |-> TRUE, s |-> s]
Fail(s) == [ok |-> FALSE, s |-> s]

\* BaseMockController.assert_stationary: enabled and stationary.
assert_stationary(s) ==
    /\ s.telemetry.state = "ENABLED"
    /\ s.telemetry.enabled_substate = "STATIONARY"

\* BaseMockController.write_config: the configuration record is emitted.
write_config(s) ==
    [s EXCEPT !.written = TRUE, !.config_written = Append(@, s.config)]

\* Mutant: the move does not check that a position was staged and moves to
\* the target of the previous move.
do_move_point_to_point_unstaged(s, command) ==
    IF ~assert_stationary(s) THEN Fail(s)
    ELSE LET target == IF s.commanded_position = None
                       THEN s.telemetry.commanded_pos ELSE s.commanded_position
         IN Ok([s EXCEPT
            !.telemetry.commanded_pos = target,
            !.telemetry.strut_commanded_final_pos =
                _hexapod_position_to_strut_position(target),
            !.telemetry.strut_commanded_accel =
                Rep(s.config.acceleration_strut, NUM_STRUT),
            !.telemetry.enabled_substate = "MOVING_POINT_TO_POINT"])

\* Mutant: the move is applied in part, the sub-state without the commanded
\* strut positions and accelerations.
do_move_point_to_point_partial(s, command) ==
    IF ~assert_stationary(s) THEN Fail(s)
    ELSE IF s.commanded_position = None THEN Fail(s)
    ELSE Ok([s EXCEPT
            !.telemetry.commanded_pos = s.commanded_position,
            !.telemetry.enabled_substate = "MOVING_POINT_TO_POINT"])

do_move_point_to_point(s, command) ==
    IF ~assert_stationary(s) THEN Fail(s)
    ELSE IF s.commanded_position = None THEN Fail(s)
    ELSE Ok([s EXCEPT
            !.telemetry.commanded_pos = s.commanded_position,
            !.telemetry.strut_commanded_final_pos =
                _hexapod_position_to_strut_position(s.commanded_position),
            !.telemetry.strut_commanded_accel =
                Rep(s.config.acceleration_strut, NUM_STRUT),
            !.telemetry.enabled_substate = "MOVING_POINT_TO_POINT"])

\* Mutant: the stop also jumps the measured pose to the target.
do_stop_jump(s, command) ==
    Ok([s EXCEPT !.telemetry.enabled_substate = "STATIONARY",
                 !.telemetry.measured_xyz = SubSeq(s.telemetry.commanded_pos, 1, 3),
                 !.telemetry.measured_uvw = SubSeq(s.telemetry.commanded_pos, 4, 6)])

do_stop(s, command) ==
    Ok([s EXCEPT !.telemetry.enabled_substate = "STATIONARY"])

\* Mutant: the position is limited to the position envelope of the Config.
do_position_set_clamped(s, command) ==
    IF ~assert_stationary(s) THEN Fail(s)
    ELSE LET lim == s.config.pos_limits
             lo == <<-lim[1], -lim[1], lim[2], -lim[4], -lim[4], lim[5]>>
             hi == <<lim[1], lim[1], lim[3], lim[4], lim[4], lim[6]>>
             Clamp(v, a, b) == IF v < a THEN a ELSE IF v > b THEN b ELSE v
         IN Ok([s EXCEPT !.commanded_position =
                [idx \in 1..NUM_DEGREE_OF_FREEDOM |->
                    Clamp(command.params[idx], lo[idx], hi[idx])]])

do_position_set(s, command) ==
    IF ~assert_stationary(s) THEN Fail(s)
    ELSE Ok([s EXCEPT !.commanded_position =
                [idx \in 1..NUM_DEGREE_OF_FREEDOM |-> command.params[idx]]])

\* Mutant: the offset is added to the target of the last move.
do_position_offset_from_target(s, command) ==
    IF ~assert_stationary(s) THEN Fail(s)
    ELSE Ok([s EXCEPT !.commanded_position =
                [idx \in 1..NUM_DEGREE_OF_FREEDOM |->
                    s.telemetry.commanded_pos[idx] + command.params[idx]]])

do_position_offset(s, command) ==
    IF ~assert_stationary(s) THEN Fail(s)
    ELSE LET current_positions == s.telemetry.measured_xyz \o s.telemetry.measured_uvw
             offsets == [idx \in 1..NUM_DEGREE_OF_FREEDOM |-> command.params[idx]]
         IN Ok([s EXCEPT !.commanded_position =
                    [idx \in 1..NUM_DEGREE_OF_FREEDOM |->
                        current_positions[idx] + offsets[idx]]])

\* Mutant: the raw strut positions are accepted when stationary.
do_set_raw_strut_when_stationary(s, command) ==
    IF ~assert_stationary(s) THEN Fail(s) ELSE Ok(s)

do_set_raw_strut(s, command) == Fail(s)

\* Mutant: a pivot outside the pivot range of the GUI is rejected.
do_set_pivot_point_in_range(s, command) ==
    IF ~assert_stationary(s) THEN Fail(s)
    ELSE IF \/ Abs(command.params[1]) > MAX_PIVOT_X_MIC
            \/ Abs(command.params[2]) > MAX_PIVOT_Y_MIC
            \/ Abs(command.params[3]) > MAX_PIVOT_Z_MIC
    THEN Fail(s)
    ELSE Ok(write_config([s EXCEPT !.config.pivot =
                <<command.params[1], command.params[2], command.params[3]>>]))

\* Mutant: the configuration is written before the pivot is assigned.
do_set_pivot_point_write_first(s, command) ==
    IF ~assert_stationary(s) THEN Fail(s)
    ELSE Ok([write_config(s) EXCEPT !.config.pivot =
                <<command.params[1], command.params[2], command.params[3]>>])

do_set_pivot_point(s, command) ==
    IF ~assert_stationary(s) THEN Fail(s)
    ELSE Ok(write_config([s EXCEPT !.config.pivot =
                <<command.params[1], command.params[2], command.params[3]>>]))

do_mask_limit_switch(s, command) == Fail(s)

\* Mutant: every nonzero parameter selects the CSC.
do_switch_command_source_nonzero(s, command) ==
    Ok([s EXCEPT !.is_csc_commander = (command.params[1] # 0)])

do_switch_command_source(s, command) ==
    Ok([s EXCEPT !.is_csc_commander = (command.params[1] = 1)])

\* Mutant: zero is accepted.
_check_positive_value_closed(value, max_value) == 0 <= value /\ value <= max_value

_check_positive_value(value, max_value) == 0 < value /\ value <= max_value

\* Mutant: the acceleration is configured without the stationary check.
do_config_accel_unguarded(s, command) ==
    IF ~_check_positive_value(command.params[1], MAX_ACCEL_LIMIT) THEN Fail(s)
    ELSE Ok(write_config([s EXCEPT !.config.acceleration_strut = command.params[1]]))

\* Mutant: the acceleration is assigned before its range is checked.
do_config_accel_assign_first(s, command) ==
    IF ~assert_stationary(s) THEN Fail(s)
    ELSE IF ~_check_positive_value(command.params[1], MAX_ACCEL_LIMIT)
    THEN Fail([s EXCEPT !.config.acceleration_strut = command.params[1]])
    ELSE Ok(write_config([s EXCEPT !.config.acceleration_strut = command.params[1]]))

do_config_accel(s, command) ==
    IF ~assert_stationary(s) THEN Fail(s)
    ELSE IF ~_check_positive_value(command.params[1], MAX_ACCEL_LIMIT) THEN Fail(s)
    ELSE Ok(write_config([s EXCEPT !.config.acceleration_strut = command.params[1]]))

\* Mutant: the limits are stored in the order of the parameters.
do_config_vel_wire_order(s, command) ==
    IF ~assert_stationary(s) THEN Fail(s)
    ELSE IF ~_check_positive_value(command.params[1], MAX_LINEAR_VEL_LIMIT) THEN Fail(s)
    ELSE IF ~_check_positive_value(command.params[2], MAX_ANGULAR_VEL_LIMIT) THEN Fail(s)
    ELSE IF ~_check_positive_value(command.params[3], MAX_LINEAR_VEL_LIMIT) THEN Fail(s)
    ELSE IF ~_check_positive_value(command.params[4], MAX_ANGULAR_VEL_LIMIT) THEN Fail(s)
    ELSE Ok(write_config([s EXCEPT !.config.vel_limits =
                <<command.params[1], command.params[2],
                  command.params[3], command.params[4]>>]))

do_config_vel(s, command) ==
    IF ~assert_stationary(s) THEN Fail(s)
    ELSE IF ~_check_positive_value(command.params[1], MAX_LINEAR_VEL_LIMIT) THEN Fail(s)
    ELSE IF ~_check_positive_value(command.params[2], MAX_ANGULAR_VEL_LIMIT) THEN Fail(s)
    ELSE IF ~_check_positive_value(command.params[3], MAX_LINEAR_VEL_LIMIT) THEN Fail(s)
    ELSE IF ~_check_positive_value(command.params[4], MAX_ANGULAR_VEL_LIMIT) THEN Fail(s)
    ELSE Ok(write_config([s EXCEPT !.config.vel_limits =
                <<command.params[1], command.params[3],
                  command.params[2], command.params[4]>>]))

\* Mutant: only the move command clears the staged position.
end_run_command_only_move(s, cmd_method) ==
    IF cmd_method = "do_move_point_to_point"
    THEN [s EXCEPT !.commanded_position = None]
    ELSE s

\* Mutant: the stop command is also allowed to leave the position staged.
end_run_command_keep_on_stop(s, cmd_method) ==
    IF cmd_method \notin {"do_position_set", "do_position_offset", "do_stop"}
    THEN [s EXCEPT !.commanded_position = None]
    ELSE s

\* Mutant: the move command also keeps the staged position.
end_run_command_keep_on_move(s, cmd_method) ==
    IF cmd_method \notin {"do_position_set", "do_position_offset",
                          "do_move_point_to_point"}
    THEN [s EXCEPT !.commanded_position = None]
    ELSE s

end_run_command(s, cmd_method) ==
    IF cmd_method \notin {"do_position_set", "do_position_offset"}
    THEN [s EXCEPT !.commanded_position = None]
    ELSE s

(***************************************************************************)
(* Telemetry cycle                                                         *)
(***************************************************************************)
\* Mutant: the new position is not limited to the target.
_move_position_overshoot(position_current, position_target, step) ==
    IF position_current = position_target THEN <<TRUE, position_current>>
    ELSE LET direction == Sign(position_target - position_current)
             position_new == position_current + direction * step
         IN IF direction > 0 /\ position_new >= position_target
                THEN <<TRUE, position_new>>
            ELSE IF direction < 0 /\ position_new <= position_target
                THEN <<TRUE, position_new>>
            ELSE <<FALSE, position_new>>

\* Mutant: no test for an axis that is already at the target.
_move_position_no_tie(position_current, position_target, step) ==
    LET direction == Sign(position_target - position_current)
        position_new == position_current + direction * step
    IN IF direction > 0 /\ position_new >= position_target
           THEN <<TRUE, position_target>>
       ELSE IF direction < 0 /\ position_new <= position_target
           THEN <<TRUE, position_target>>
       ELSE <<FALSE, position_new>>

\* Returns <<is_done, position_new>>.
_move_position(position_current, position_target, step) ==
    IF position_current = position_target THEN <<TRUE, position_current>>
    ELSE LET direction == Sign(position_target - position_current)
             position_new == position_current + direction * step
         IN IF direction > 0 /\ position_new >= position_target
                THEN <<TRUE, position_target>>
            ELSE IF direction < 0 /\ position_new <= position_target
                THEN <<TRUE, position_target>>
            ELSE <<FALSE, position_new>>

\* Mutant: only the linear axes are waited for.
is_done_linear(is_done_x, is_done_y, is_done_z, is_done_u, is_done_v, is_done_w) ==
    is_done_x /\ is_done_y /\ is_done_z

\* The movement is done when it is done on the six axes.
is_done(is_done_x, is_done_y, is_done_z, is_done_u, is_done_v, is_done_w) ==
    is_done_x /\ is_done_y /\ is_done_z /\ is_done_u /\ is_done_v /\ is_done_w

\* The six calls of _move_position of a cycle: <<is_done, new>> per axis.
_move_positions(t) ==
    << _move_position(t.measured_xyz[1], t.commanded_pos[1], CYCLE_MOVE_POSITION_UM),
       _move_position(t.measured_xyz[2], t.commanded_pos[2], CYCLE_MOVE_POSITION_UM),
       _move_position(t.measured_xyz[3], t.commanded_pos[3], CYCLE_MOVE_POSITION_UM),
       _move_position(t.measured_uvw[1], t.commanded_pos[4], CYCLE_MOVE_POSITION_DEG),
       _move_position(t.measured_uvw[2], t.commanded_pos[5], CYCLE_MOVE_POSITION_DEG),
       _move_position(t.measured_uvw[3], t.commanded_pos[6], CYCLE_MOVE_POSITION_DEG) >>

\* The assignments of update_telemetry, numbered in the order of the method:
\*    1 latching_fault_status_register    2 input_pin_states
\*    3 copley_fault_status_register      4 status_word
\*    5 application_status                6 application_status |= DDS_COMMAND_SOURCE
\*    7 motor_current                     8 bus_voltage
\*  and, while moving,
\*    9 measured_xyz                     10 measured_uvw
\*   11..16 estimated_posfiltvel[0..5].pos
\*   17 enabled_substate (move done) or status_word (move not done)
\*   18 _commanded_position (move done)
NUM_ASSIGNMENT == 18

\* The first statement of each of the four sections of the method (drive
\* status, application status, power, positions).
SECTION_START == <<1, 5, 7, 9>>

\* One telemetry cycle: the drive status, the application status, the power
\* and, while moving, the hexapod and strut positions (m holds the results
\* of _move_position).  The assignments before number k are executed; the
\* whole cycle is k = NUM_ASSIGNMENT + 1.
telemetry_cycle_until(s, m, k) ==
    LET t == s.telemetry
        \* Copley drive status
        status_word ==
            IF s.config.drives_enabled THEN STATUS_WORD_ENABLED
            ELSE STATUS_WORD_DISABLED
        \* Application status
        app == BitOr(EUI_CONNECTED, SYNC_MODE)
        application_status ==
            IF s.is_csc_commander /\ 6 < k THEN BitOr(app, DDS_COMMAND_SOURCE) ELSE app
        \* Power
        motor_current ==
            IF s.config.drives_enabled THEN Rep(STRUT_CURRENT, NUM_STRUT)
            ELSE Rep(0, NUM_STRUT)
        \* Hexapod and strut positions
        moving == t.enabled_substate = "MOVING_POINT_TO_POINT"
        new_xyz == <<m[1][2], m[2][2], m[3][2]>>
        new_uvw == <<m[4][2], m[5][2], m[6][2]>>
        done == is_done(m[1][1], m[2][1], m[3][1], m[4][1], m[5][1], m[6][1])
    IN [s EXCEPT
        !.telemetry.latching_fault_status_register =
            IF 1 < k THEN Rep(0, NUM_STRUT) ELSE @,
        !.telemetry.input_pin_states =
            IF 2 < k THEN Rep(INPUT_PIN_STATES, NUM_DRIVE) ELSE @,
        !.telemetry.copley_fault_status_register =
            IF 3 < k THEN Rep(COPLEY_FAULT_STATUS, NUM_STRUT) ELSE @,
        !.telemetry.application_status = IF 5 < k THEN application_status ELSE @,
        !.telemetry.motor_current = IF 7 < k THEN motor_current ELSE @,
        !.telemetry.bus_voltage = IF 8 < k THEN Rep(BUS_VOLTAGE, NUM_DRIVE) ELSE @,
        !.telemetry.measured_xyz = IF moving /\ 9 < k THEN new_xyz ELSE @,
        !.telemetry.measured_uvw = IF moving /\ 10 < k THEN new_uvw ELSE @,
        !.telemetry.estimated_pos =
            IF moving
            THEN [idx \in 1..NUM_STRUT |->
                    IF 10 + idx < k
                    THEN M_TO_UM(_hexapod_position_to_strut_position(new_xyz \o new_uvw)[idx])
                    ELSE @[idx]]
            ELSE @,
        \* Change the substate if the movement is done
        !.telemetry.enabled_substate =
            IF moving /\ done /\ 17 < k THEN "STATIONARY" ELSE @,
        !.commanded_position = IF moving /\ done /\ 18 < k THEN None ELSE @,
        \* Update the Copley drive status word
        !.telemetry.status_word =
            IF moving /\ ~done /\ 17 < k
            THEN Rep(BitOr(status_word, AMPLIFIER_MOVE_BIT), NUM_STRUT)
            ELSE IF 4 < k THEN Rep(status_word, NUM_STRUT) ELSE @]

telemetry_cycle(s, m) == telemetry_cycle_until(s, m, NUM_ASSIGNMENT + 1)

\* Mutant: the amplifier-move bit is also set in the cycle that completes the
\* move.
update_telemetry_bit_on_completion(s) ==
    LET c == CHOOSE r \in { telemetry_cycle(s, m) :
                              m \in {_move_positions(s.telemetry)} } : TRUE
    IN IF s.telemetry.enabled_substate = "MOVING_POINT_TO_POINT"
       THEN [c EXCEPT !.telemetry.status_word =
                [idx \in 1..NUM_STRUT |-> BitOr(@[idx], AMPLIFIER_MOVE_BIT)]]
       ELSE c

\* Mutant: a cycle that starts stationary away from the commanded pose
\* resumes the move.
update_telemetry_resume(s) ==
    LET resumed == IF s.telemetry.measured_xyz \o s.telemetry.measured_uvw
                          # s.telemetry.commanded_pos
                   THEN [s EXCEPT !.telemetry.enabled_substate = "MOVING_POINT_TO_POINT"]
                   ELSE s
    IN CHOOSE r \in { telemetry_cycle(resumed, m) :
                        m \in {_move_positions(resumed.telemetry)} } : TRUE

update_telemetry(s) ==
    CHOOSE r \in { telemetry_cycle(s, m) : m \in {_move_positions(s.telemetry)} } : TRUE

\* Mutant: the failure of an assignment is not caught.
update_telemetry_fault_uncaught(s, k) ==
    [s |-> CHOOSE r \in { telemetry_cycle_until(s, m, k) :
                            m \in {_move_positions(s.telemetry)} } : TRUE,
     raised |-> TRUE]

\* The section of assignment k.
SectionOf(k) ==
    IF k < SECTION_START[2] THEN 1
    ELSE IF k < SECTION_START[3] THEN 2
    ELSE IF k < SECTION_START[4] THEN 3
    ELSE 4

\* Mutant: each section has a try block of its own, so that the sections
\* after the failing one are executed.
update_telemetry_fault_per_section(s, k) ==
    [s |-> CHOOSE r \in
            { LET part == telemetry_cycle_until(s, m, k)
                  full == telemetry_cycle(s, m)
              IN [part EXCEPT
                    !.telemetry.application_status =
                        IF SectionOf(k) < 2 THEN full.telemetry.application_status ELSE @,
                    !.telemetry.motor_current =
                        IF SectionOf(k) < 3 THEN full.telemetry.motor_current ELSE @,
                    !.telemetry.bus_voltage =
                        IF SectionOf(k) < 3 THEN full.telemetry.bus_voltage ELSE @,
                    !.telemetry.measured_xyz =
                        IF SectionOf(k) < 4 THEN full.telemetry.measured_xyz ELSE @,
                    !.telemetry.measured_uvw =
                        IF SectionOf(k) < 4 THEN full.telemetry.measured_uvw ELSE @,
                    !.telemetry.estimated_pos =
                        IF SectionOf(k) < 4 THEN full.telemetry.estimated_pos ELSE @,
                    !.telemetry.enabled_substate =
                        IF SectionOf(k) < 4 THEN full.telemetry.enabled_substate ELSE @,
                    !.commanded_position =
                        IF SectionOf(k) < 4 THEN full.commanded_position ELSE @]
              : m \in {_move_positions(s.telemetry)} } : TRUE,
     raised |-> FALSE]

\* update_telemetry in which assignment k raises: the try block is left at
\* assignment k and the except clause logs the exception.
update_telemetry_fault(s, k) ==
    [s |-> CHOOSE r \in { telemetry_cycle_until(s, m, k) :
                            m \in {_move_positions(s.telemetry)} } : TRUE,
     raised |-> FALSE]

\* Model.telemetry_callback: the command source the GUI reports for a
\* telemetry sample.
command_source(t) ==
    IF HasBit(t.application_status, DDS_COMMAND_SOURCE) THEN "CSC" ELSE "GUI"

(***************************************************************************)
(* Construction                                                            *)
(***************************************************************************)
\* Mutant: the position limits of the camera hexapod are used for both.
_create_config_camera(type) ==
    [acceleration_strut |-> MAX_ACCEL_LIMIT,
     vel_limits |-> <<MAX_LINEAR_VEL_LIMIT, MAX_LINEAR_VEL_LIMIT,
                      MAX_ANGULAR_VEL_LIMIT, MAX_ANGULAR_VEL_LIMIT>>,
     max_displacement_strut |-> MAX_ACTUATOR_RANGE_MIC,
     max_velocity_strut |-> STRUT_SPEED,
     pos_limits |-> <<CAM_XY_MAX_MIC, CAM_Z_MIN_MIC, CAM_Z_MAX_MIC,
                      CAM_UV_MAX_DEG, CAM_W_MIN_DEG, CAM_W_MAX_DEG>>,
     pivot |-> PIVOT,
     drives_enabled |-> FALSE]

_create_config(type) ==
    [acceleration_strut |-> MAX_ACCEL_LIMIT,
     vel_limits |-> <<MAX_LINEAR_VEL_LIMIT, MAX_LINEAR_VEL_LIMIT,
                      MAX_ANGULAR_VEL_LIMIT, MAX_ANGULAR_VEL_LIMIT>>,
     max_displacement_strut |-> MAX_ACTUATOR_RANGE_MIC,
     max_velocity_strut |-> STRUT_SPEED,
     pos_limits |->
        IF type = "CAMERA_HEXAPOD"
        THEN <<CAM_XY_MAX_MIC, CAM_Z_MIN_MIC, CAM_Z_MAX_MIC,
               CAM_UV_MAX_DEG, CAM_W_MIN_DEG, CAM_W_MAX_DEG>>
        ELSE <<M2_XY_MAX_MIC, M2_Z_MIN_MIC, M2_Z_MAX_MIC,
               M2_UV_MAX_DEG, M2_W_MIN_DEG, M2_W_MAX_DEG>>,
     pivot |-> PIVOT,
     drives_enabled |-> FALSE]

ZeroStrut == [r3 |-> 0, r1 |-> 0, e |-> 0]

_create_telemetry ==
    [state |-> "STANDBY",
     enabled_substate |-> "STATIONARY",
     measured_xyz |-> <<0, 0, 0>>,
     measured_uvw |-> <<0, 0, 0>>,
     commanded_pos |-> Rep(0, NUM_DEGREE_OF_FREEDOM),
     strut_commanded_final_pos |-> Rep(ZeroStrut, NUM_STRUT),
     strut_commanded_accel |-> Rep(0, NUM_STRUT),
     estimated_pos |-> Rep(ZeroStrut, NUM_STRUT),
     status_word |-> Rep(0, NUM_STRUT),
     latching_fault_status_register |-> Rep(0, NUM_STRUT),
     copley_fault_status_register |-> Rep(0, NUM_STRUT),
     input_pin_states |-> Rep(0, NUM_DRIVE),
     application_status |-> 0,
     motor_current |-> Rep(0, NUM_STRUT),
     bus_voltage |-> Rep(BUS_VOLTAGE, NUM_DRIVE)]

\* int, bool (False and True as 0 and 1), list and tuple values of Python, with
\* their type.
PyInt(v) == [v |-> v, type |-> "int"]
PyBool(v) == [v |-> v, type |-> "bool"]
PyList(v) == [v |-> v, type |-> "list"]
PyTuple(v) == [v |-> v, type |-> "tuple"]

\* Status(): the status of the GUI model before any telemetry.
Status ==
    [state |-> PyInt(0), status_word |-> PyList(Rep(0, NUM_STRUT)),
     application_status |-> PyInt(0), command_source |-> PyInt(0),
     substate_enabled |-> PyInt(0),
     latching_fault |-> PyList(Rep(0, NUM_STRUT)),
     copley_status |-> PyList(Rep(0, NUM_STRUT)),
     input_pin |-> PyList(Rep(0, NUM_DRIVE))]

\* The control panel when it is created: nothing selected, not connected, no
\* send-command callback running.
ControlPanel ==
    [pc |-> "idle", name |-> "", trigger_state |-> "Enable",
     trigger_enabled_substate |-> "Move", motion_pattern |-> "Sync",
     connected |-> FALSE, result |-> "none", sent |-> << >>]

\* The controller constructed for one hexapod.
Construct(type) ==
    /\ hexapod_type = type
    /\ telemetry = _create_telemetry
    /\ config = _create_config(type)
    /\ commanded_position = None
    /\ is_csc_commander = FALSE
    /\ command_status = [method |-> "none", ack |-> TRUE, wrote_config |-> FALSE, config_written |-> << >>]
    /\ move_start = Rep(0, NUM_DEGREE_OF_FREEDOM)
    /\ telemetry_raised = FALSE
    /\ in_write_config = "none"
    /\ float64_move =
           [enabled_substate |-> "STATIONARY", cycles |-> 0,
            measured_xyz |-> <<0, 0, 0>>,
            measured_uvw |-> Rep([neg |-> FALSE, m |-> <<0, 0, 0>>], 3),
            commanded_pos |-> Rep(0, NUM_DEGREE_OF_FREEDOM),
            start |-> Rep(0, NUM_DEGREE_OF_FREEDOM)]
    /\ control_panel = ControlPanel
    /\ model_status = [status |-> Status, call |-> << >>, signals |-> << >>,
                       raised |-> FALSE, in_motion |-> FALSE]

HexapodTypes == {"CAMERA_HEXAPOD", "M2_HEXAPOD"}

\* The camera hexapod.
Init == Construct("CAMERA_HEXAPOD")

\* Either hexapod.
InitAny == \E type \in HexapodTypes : Construct(type)

(***************************************************************************)
(* State commands of the base controller                                   *)
(***************************************************************************)
do_enable(s, command) ==
    IF s.telemetry.state # "STANDBY" THEN Fail(s)
    ELSE Ok([s EXCEPT !.telemetry.state = "ENABLED",
                      !.telemetry.enabled_substate = "STATIONARY"])

do_standby(s, command) ==
    Ok([s EXCEPT !.telemetry.state = "STANDBY",
                 !.telemetry.enabled_substate = "STATIONARY"])

do_enable_drives(s, command) ==
    Ok(write_config([s EXCEPT !.config.drives_enabled = (command.params[1] # 0)]))

(***************************************************************************)
(* Command dispatch: the handler, then end_run_command                     *)
(***************************************************************************)
Handle(s, command) ==
    CASE command.method = "do_move_point_to_point" -> do_move_point_to_point(s, command)
      [] command.method = "do_stop" -> do_stop(s, command)
      [] command.method = "do_position_set" -> do_position_set(s, command)
      [] command.method = "do_position_offset" -> do_position_offset(s, command)
      [] command.method = "do_set_raw_strut" -> do_set_raw_strut(s, command)
      [] command.method = "do_set_pivot_point" -> do_set_pivot_point(s, command)
      [] command.method = "do_mask_limit_switch" -> do_mask_limit_switch(s, command)
      [] command.method = "do_switch_command_source" -> do_switch_command_source(s, command)
      [] command.method = "do_config_accel" -> do_config_accel(s, command)
      [] command.method = "do_config_vel" -> do_config_vel(s, command)
      [] command.method = "do_enable" -> do_enable(s, command)
      [] command.method = "do_standby" -> do_standby(s, command)
      [] command.method = "do_enable_drives" -> do_enable_drives(s, command)

Command(method, params) == [method |-> method, params |-> params]

Install(s) ==
    /\ telemetry' = s.telemetry
    /\ config' = s.config
    /\ commanded_position' = s.commanded_position
    /\ is_csc_commander' = s.is_csc_commander
    /\ UNCHANGED <<hexapod_type, float64_move, control_panel, model_status>>

\* The history variable after a step that leaves the controller as s.
MoveStartAfter(s, start) ==
    IF s.telemetry.enabled_substate = "MOVING_POINT_TO_POINT"
    THEN start ELSE Rep(0, NUM_DEGREE_OF_FREEDOM)

run_command(command) ==
    LET r == Handle(Ctl, command)
        s == end_run_command(r.s, command.method)
    IN /\ in_write_config = "none"
       /\ Install(s)
       /\ command_status' = [method |-> command.method, ack |-> r.ok,
                             wrote_config |-> s.written,
                             config_written |-> s.config_written]
       /\ move_start' = MoveStartAfter(s, IF command.method = "do_move_point_to_point"
                                              THEN Pose ELSE move_start)
       /\ UNCHANGED <<telemetry_raised, in_write_config>>

Zeros == <<0, 0, 0, 0, 0, 0>>

\* acceleration: below the range, in range, above the range
AccelParams == {0, 1, 1000}
\* velocity (xy, uv, z, w): in range, uv out of range
VelParams == { <<20000000, 1146, 20000000, 1146>>, <<100, 1147, 300, 400>> }
PivotParams == { <<0, 0, -703000>> }
SourceParams == {0, 1, 2}
DrivesParams == {0, 1}

Move == run_command(Command("do_move_point_to_point", Zeros))
Stop == run_command(Command("do_stop", Zeros))
PositionSet(P) == \E p \in P : run_command(Command("do_position_set", p))
PositionOffset(P) ==
    \E p \in P :
        /\ InReach([i \in 1..NUM_DEGREE_OF_FREEDOM |-> Pose[i] + p[i]])
        /\ run_command(Command("do_position_offset", p))
SetRawStrut == run_command(Command("do_set_raw_strut", Zeros))
SetPivotPoint == \E p \in PivotParams : run_command(Command("do_set_pivot_point", p))
MaskLimitSwitch == run_command(Command("do_mask_limit_switch", Zeros))
SwitchCommandSource ==
    \E a \in SourceParams : run_command(Command("do_switch_command_source", <<a>>))
ConfigAccel == \E a \in AccelParams : run_command(Command("do_config_accel", <<a>>))
ConfigVel == \E p \in VelParams : run_command(Command("do_config_vel", p))
Enable == run_command(Command("do_enable", Zeros))
Standby == run_command(Command("do_standby", Zeros))
EnableDrives == \E a \in DrivesParams : run_command(Command("do_enable_drives", <<a>>))

UpdateTelemetry ==
    \E s \in {update_telemetry(Ctl)} :
        /\ Install(s)
        /\ telemetry_raised' = FALSE
        /\ move_start' = MoveStartAfter(s, move_start)
        /\ UNCHANGED <<command_status, in_write_config>>

\* A telemetry cycle in which assignment k fails.
FaultAt(k) ==
    \E r \in {update_telemetry_fault(Ctl, k)} :
        /\ Install(r.s)
        /\ telemetry_raised' = r.raised
        /\ move_start' = MoveStartAfter(r.s, move_start)
        /\ UNCHANGED <<command_status, in_write_config>>

UpdateTelemetryFault == \E k \in 1..NUM_ASSIGNMENT : FaultAt(k)

\* The motion of the hexapod: every command that reads or writes the motion
\* state, and the telemetry cycle.
Next ==
    \/ Move
    \/ Stop
    \/ PositionSet(PositionParams)
    \/ PositionOffset(OffsetParams)
    \/ SetRawStrut
    \/ SetPivotPoint
    \/ MaskLimitSwitch
    \/ ConfigAccel
    \/ ConfigVel
    \/ Enable
    \/ Standby
    \/ UpdateTelemetry

Spec == Init /\ [][Next]_vars

\* Every command of the command table, on the smaller position inputs.
NextAll ==
    \/ Move
    \/ Stop
    \/ PositionSet(PositionParamsAll)
    \/ PositionOffset(OffsetParamsAll)
    \/ SetRawStrut
    \/ SetPivotPoint
    \/ MaskLimitSwitch
    \/ SwitchCommandSource
    \/ ConfigAccel
    \/ ConfigVel
    \/ Enable
    \/ Standby
    \/ EnableDrives
    \/ UpdateTelemetry

SpecAll == Init /\ [][NextAll]_vars

\* The motion commands on inputs outside the position envelope.
NextFar ==
    \/ Move
    \/ Stop
    \/ PositionSet(PositionParamsFar)
    \/ PositionOffset(OffsetParamsFar)
    \/ Enable
    \/ UpdateTelemetry

SpecFar == Init /\ [][NextFar]_vars

\* Inputs at and around the edges of the ranges of the configuration commands.
\* acceleration: 0, in range, the maximum, above the maximum
AccelParamsEdge == {0, 1, 500, 501}
\* velocity (xy, uv, z, w): in range, at the maxima, and each parameter out of
\* range in turn
VelParamsEdge ==
    { <<100, 200, 300, 400>>,
      <<20000000, 1146, 20000000, 1146>>,
      <<0, 200, 300, 400>>,
      <<100, 1147, 300, 400>>,
      <<100, 200, 20000001, 400>>,
      <<100, 200, 300, -1>> }
\* pivot (x, y, z, and three ignored parameters): the default and one outside
\* the pivot range of the GUI
PivotParamsFar == { <<0, 0, -703000, 0, 0, 0>>, <<600000, -600000, 4000000, 7, 8, 9>> }
\* raw strut set and mask limit switch: any parameters
AnyParams == { Zeros, <<1, 2, 3, 4, 5, 6>> }

ConfigAccelEdge ==
    \E a \in AccelParamsEdge : run_command(Command("do_config_accel", <<a>>))
ConfigVelEdge == \E p \in VelParamsEdge : run_command(Command("do_config_vel", p))
SetPivotPointFar ==
    \E p \in PivotParamsFar : run_command(Command("do_set_pivot_point", p))
SetRawStrutAny == \E p \in AnyParams : run_command(Command("do_set_raw_strut", p))
MaskLimitSwitchAny ==
    \E p \in AnyParams : run_command(Command("do_mask_limit_switch", p))

\* The configuration of either hexapod: every command of the command table,
\* the configuration commands on the edges of their ranges.
NextConfig ==
    \/ Move
    \/ Stop
    \/ PositionSet(PositionParamsAll)
    \/ SetRawStrutAny
    \/ SetPivotPointFar
    \/ MaskLimitSwitchAny
    \/ SwitchCommandSource
    \/ ConfigAccelEdge
    \/ ConfigVelEdge
    \/ Enable
    \/ Standby
    \/ EnableDrives
    \/ UpdateTelemetry

SpecConfig == InitAny /\ [][NextConfig]_vars

SwitchToCsc == run_command(Command("do_switch_command_source", <<1>>))
EnableDrivesOn == run_command(Command("do_enable_drives", <<1>>))

\* Moves of the camera hexapod with telemetry cycles that fail at any of
\* their assignments, next to the cycles that run through.  The drives are
\* enabled and the command source is switched so that every assignment of a
\* cycle has a value to change.
NextFault ==
    \/ Move
    \/ Stop
    \/ PositionSet(PositionParamsAll)
    \/ SwitchToCsc
    \/ Enable
    \/ EnableDrivesOn
    \/ UpdateTelemetry
    \/ UpdateTelemetryFault

\* The commands of the enabled controller with the telemetry loop kept
\* running: the loop of the base controller calls update_telemetry once per
\* telemetry interval, whatever commands arrive.
NextLive ==
    \/ Move
    \/ Stop
    \/ PositionSet(PositionParams)
    \/ PositionOffset(OffsetParams)
    \/ ConfigAccel
    \/ Enable
    \/ UpdateTelemetry

\* A telemetry cycle of a move in progress.
MovingCycle == telemetry.enabled_substate = "MOVING_POINT_TO_POINT" /\ UpdateTelemetry

SpecLive == Init /\ [][NextLive]_vars /\ WF_vars(MovingCycle)

SpecFault == Init /\ [][NextFault]_vars /\ WF_vars(MovingCycle)

(***************************************************************************)
(* Properties                                                              *)
(***************************************************************************)
Moving == telemetry.enabled_substate = "MOVING_POINT_TO_POINT"
Stationary == telemetry.enabled_substate = "STATIONARY"
Enabled == telemetry.state = "ENABLED"

\* A step of one of the commands that require the hexapod to be stationary.
RequiresStationary ==
    \/ Move
    \/ PositionSet(PositionParams)
    \/ PositionOffset(OffsetParams)
    \/ SetPivotPoint
    \/ ConfigAccel
    \/ ConfigVel

\* C1: a command that requires stationarity (move, position set, position
\* offset, pivot set, config acceleration, config velocity), executed while
\* the sub-state is MOVING_POINT_TO_POINT, is rejected and leaves the whole
\* Config and the whole Telemetry as they were.
C1_RejectedWhileMoving ==
    [][ (Moving /\ RequiresStationary) =>
            /\ ~command_status'.ack
            /\ telemetry' = telemetry
            /\ config' = config ]_vars

\* A config acceleration with an in-range parameter has just been rejected
\* during a move.
C1_Witness ==
    /\ Moving
    /\ command_status = [method |-> "do_config_accel", ack |-> FALSE, wrote_config |-> FALSE, config_written |-> << >>]
    /\ config.acceleration_strut = MAX_ACCEL_LIMIT

\* C2: a move executed while stationary with no staged pose is rejected and
\* the sub-state stays STATIONARY; the sub-state becomes
\* MOVING_POINT_TO_POINT only by an accepted move command executed with a
\* pose staged.
C2_MoveNeedsStagedPose ==
    [][ /\ (Move /\ Stationary /\ commanded_position = None) =>
              (~command_status'.ack /\ Stationary')
        /\ (~Moving /\ Moving') =>
              /\ Move
              /\ commanded_position # None
              /\ command_status' = [method |-> "do_move_point_to_point",
                                    ack |-> TRUE, wrote_config |-> FALSE, config_written |-> << >>] ]_vars

\* Enabled, no telemetry cycle has run yet, and the last command, a move, was
\* rejected with the sub-state STATIONARY: no pose was staged.
C2_Witness ==
    /\ Enabled /\ Stationary
    /\ telemetry.status_word = Rep(0, NUM_STRUT)
    /\ command_status.method = "do_move_point_to_point"
    /\ ~command_status.ack
    /\ commanded_position = None

\* The strut positions (in metres) that the transform gives for a pose:
\* struts 0, 2, 4 take x and ry, struts 1, 3, 5 take y and rx.
ExpectedStruts(p) ==
    [idx \in 1..NUM_STRUT |->
        IF idx % 2 = 1
        THEN [r3 |-> p[3], r1 |-> p[6] + p[1] + p[5], e |-> -6]
        ELSE [r3 |-> p[3], r1 |-> p[6] + p[2] + p[4], e |-> -6]]

\* C3: an accepted move sets the sub-state to MOVING_POINT_TO_POINT, sets
\* telemetry.commanded_pos to the staged pose, the six commanded final strut
\* positions to the transform of the staged pose and the six commanded strut
\* accelerations to the Config acceleration; the measured pose is unchanged.
C3_MoveEffect ==
    [][ (Move /\ command_status'.ack) =>
            /\ Enabled /\ Stationary /\ commanded_position # None
            /\ Moving'
            /\ telemetry'.commanded_pos = commanded_position
            /\ telemetry'.strut_commanded_final_pos = ExpectedStruts(commanded_position)
            /\ telemetry'.strut_commanded_accel = Rep(config.acceleration_strut, NUM_STRUT)
            /\ telemetry'.measured_xyz = telemetry.measured_xyz
            /\ telemetry'.measured_uvw = telemetry.measured_uvw ]_vars

\* A move was accepted after the acceleration was configured to 1, toward a
\* pose whose x and y (and rx and ry) terms differ.
C3_Witness ==
    /\ Moving
    /\ command_status.method = "do_move_point_to_point" /\ command_status.ack
    /\ telemetry.strut_commanded_accel = Rep(1, NUM_STRUT)
    /\ telemetry.commanded_pos = <<100, 200, 250, 10, -20, 5>>
    /\ telemetry.strut_commanded_final_pos[1] # telemetry.strut_commanded_final_pos[2]

\* x lies between a and b (inclusive).
Between(a, x, b) == (a <= x /\ x <= b) \/ (b <= x /\ x <= a)

\* C4: the stop command is always accepted and leaves the sub-state
\* STATIONARY without changing the measured pose; a telemetry cycle run while
\* stationary leaves the measured pose unchanged, so the partial pose of a
\* stopped move, which lies between the start and the target of the move, is
\* kept until a new move is started.
C4_StopKeepsPose ==
    [][ /\ Stop =>
              /\ command_status'.ack
              /\ Stationary'
              /\ telemetry'.measured_xyz = telemetry.measured_xyz
              /\ telemetry'.measured_uvw = telemetry.measured_uvw
        /\ (Stop /\ Moving) =>
              \A i \in 1..NUM_DEGREE_OF_FREEDOM :
                  Between(move_start[i], Pose'[i], telemetry'.commanded_pos[i])
        /\ (Pose' # Pose) => (Moving /\ UpdateTelemetry) ]_vars

\* A move toward z = 250 was stopped part-way: the sub-state is STATIONARY,
\* the last command is the stop and a cycle has run since (no amplifier-moving
\* bit is left), and z is strictly between its start 0 and the target.
C4_Witness ==
    /\ Enabled /\ Stationary
    /\ command_status.method = "do_stop" /\ command_status.ack
    /\ telemetry.commanded_pos = <<100, 200, 250, 10, -20, 5>>
    /\ telemetry.measured_xyz[3] \in {100, 200}
    /\ telemetry.status_word = Rep(STATUS_WORD_DISABLED, NUM_STRUT)

\* C5 as stated: a pose staged before a stop command is still staged after
\* the stop command has completed.
C5_StopKeepsStagedPose ==
    [][ (Stop /\ commanded_position # None) =>
            commanded_position' = commanded_position ]_vars

\* C5 as amended: the stop handler itself leaves the staged pose alone, but
\* the bookkeeping that ends every stop command clears it: after a stop
\* command has completed no pose is staged.
C5_StopClearsStagedPose ==
    [][ Stop =>
            /\ do_stop(Ctl, Command("do_stop", Zeros)).s.commanded_position
                    = commanded_position
            /\ commanded_position' = None ]_vars

\* A stop command has completed right after a pose was staged (no move and
\* no telemetry cycle in between), and no pose is staged any more.
C5_Witness ==
    /\ Enabled /\ Stationary
    /\ command_status.method = "do_stop"
    /\ telemetry.status_word = Rep(0, NUM_STRUT)
    /\ telemetry.commanded_pos = Rep(0, NUM_DEGREE_OF_FREEDOM)
    /\ commanded_position = None

\* C6: after any command other than position set and position offset has
\* been processed no pose is staged; after an accepted position set or
\* position offset a pose is staged; hence a move is accepted only if the
\* command processed just before it was an accepted position set or offset.
C6_Bookkeeping ==
    /\ [] /\ command_status.method \notin {"none", "do_position_set", "do_position_offset"}
                => commanded_position = None
          /\ (command_status.method \in {"do_position_set", "do_position_offset"}
                /\ command_status.ack) => commanded_position # None
    /\ [][ (Move /\ command_status'.ack) =>
                /\ command_status.method \in {"do_position_set", "do_position_offset"}
                /\ command_status.ack ]_vars

\* Enabled and stationary, before any telemetry cycle: a command-source
\* switch was processed and the move that came last was rejected.
C6_Witness ==
    /\ Enabled /\ Stationary
    /\ is_csc_commander
    /\ telemetry.status_word = Rep(0, NUM_STRUT)
    /\ command_status.method = "do_move_point_to_point" /\ ~command_status.ack
    /\ commanded_position = None

\* C7: a position set executed while enabled and stationary is accepted and
\* stages its six parameters as they are, also outside the position envelope
\* and whatever was staged before; an accepted move takes the pose staged
\* last as telemetry.commanded_pos.
C7_PositionSetVerbatim ==
    [][ /\ \A p \in PositionParamsFar :
              (run_command(Command("do_position_set", p)) /\ Enabled /\ Stationary) =>
                  /\ command_status'.ack
                  /\ commanded_position' = p
        /\ \A p \in OffsetParamsFar :
              (run_command(Command("do_position_offset", p)) /\ Enabled /\ Stationary) =>
                  /\ command_status'.ack
                  /\ commanded_position' =
                         [i \in 1..NUM_DEGREE_OF_FREEDOM |-> Pose[i] + p[i]]
        /\ (Move /\ command_status'.ack) =>
              telemetry'.commanded_pos = commanded_position ]_vars

\* A move is under way toward a staged pose whose w is beyond the envelope.
C7_Witness ==
    /\ Moving
    /\ telemetry.commanded_pos = <<0, 0, 0, 0, 0, 105>>
    /\ telemetry.commanded_pos[6] > config.pos_limits[6]
    /\ telemetry.measured_uvw[3] > 0

\* C8: a position offset executed while enabled and stationary stages, on
\* each axis, the measured value at that time plus the offset parameter.
C8_OffsetFromMeasured ==
    [][ \A p \in OffsetParams :
            (run_command(Command("do_position_offset", p)) /\ Enabled /\ Stationary) =>
                /\ command_status'.ack
                /\ commanded_position' =
                       [i \in 1..NUM_DEGREE_OF_FREEDOM |-> Pose[i] + p[i]] ]_vars

\* An offset was staged after a move toward z = 250 was stopped part-way: the
\* staged z is the partial z plus 100, not the old target plus 100.
C8_Witness ==
    /\ Enabled /\ Stationary
    /\ command_status.method = "do_position_offset" /\ command_status.ack
    /\ telemetry.commanded_pos = <<100, 200, 250, 10, -20, 5>>
    /\ telemetry.measured_xyz[3] = 100
    /\ commanded_position # None
    /\ commanded_position[3] = 200

Arrived ==
    /\ Stationary
    /\ Pose = telemetry.commanded_pos
    /\ commanded_position = None

C11_ConfigAccelRange ==
    [][ \A a \in AccelParamsEdge :
            (Enabled /\ Stationary /\ run_command(Command("do_config_accel", <<a>>))) =>
                /\ command_status'.ack <=> (0 < a /\ a <= MAX_ACCEL_LIMIT)
                /\ command_status'.ack => config'.acceleration_strut = a
                /\ ~command_status'.ack =>
                        config'.acceleration_strut = config.acceleration_strut ]_vars

\* A config acceleration has just failed on its range while the controller
\* was enabled and stationary, after an earlier one had set the acceleration.
C11_Witness ==
    /\ Enabled /\ Stationary
    /\ command_status.method = "do_config_accel"
    /\ ~command_status.ack
    /\ config.acceleration_strut = 1

InLinearRange(v) == 0 < v /\ v <= MAX_LINEAR_VEL_LIMIT
InAngularRange(v) == 0 < v /\ v <= MAX_ANGULAR_VEL_LIMIT

\* C12: a config velocity executed while enabled and stationary succeeds iff
\* param1 and param3 are in (0, MAX_LINEAR_VEL_LIMIT] and param2 and param4 in
\* (0, MAX_ANGULAR_VEL_LIMIT]; on success vel_limits is (param1, param3,
\* param2, param4); if any parameter is out of range all four limits keep
\* their previous values.
C12_ConfigVelReorder ==
    [][ \A p \in VelParamsEdge :
            (Enabled /\ Stationary /\ run_command(Command("do_config_vel", p))) =>
                /\ command_status'.ack <=>
                        /\ InLinearRange(p[1]) /\ InLinearRange(p[3])
                        /\ InAngularRange(p[2]) /\ InAngularRange(p[4])
                /\ command_status'.ack =>
                        config'.vel_limits = <<p[1], p[3], p[2], p[4]>>
                /\ ~command_status'.ack => config'.vel_limits = config.vel_limits ]_vars

\* A config velocity has just failed on a range after an earlier one had
\* stored (100, 200, 300, 400) as (100, 300, 200, 400).
C12_Witness ==
    /\ Enabled /\ Stationary
    /\ command_status.method = "do_config_vel"
    /\ ~command_status.ack
    /\ config.vel_limits = <<100, 300, 200, 400>>

\* C13: the raw strut set and the mask limit switch commands fail for every
\* parameter combination and in every state and sub-state, and change
\* neither the Config, nor the sub-state, nor the measured pose.
C13_Unsupported ==
    [][ (SetRawStrutAny \/ MaskLimitSwitchAny) =>
            /\ ~command_status'.ack
            /\ config' = config
            /\ telemetry'.state = telemetry.state
            /\ telemetry'.enabled_substate = telemetry.enabled_substate
            /\ Pose' = Pose ]_vars

\* A raw strut set has just been rejected while enabled and stationary, at a
\* pose reached by a move.
C13_Witness ==
    /\ Enabled /\ Stationary
    /\ command_status.method = "do_set_raw_strut"
    /\ ~command_status.ack
    /\ Pose = <<0, 0, 150, 0, -5, 0>>

\* A step of a command of the configuration specification.
CommandStep ==
    \/ Move
    \/ Stop
    \/ PositionSet(PositionParamsAll)
    \/ SetRawStrutAny
    \/ SetPivotPointFar
    \/ MaskLimitSwitchAny
    \/ SwitchCommandSource
    \/ ConfigAccelEdge
    \/ ConfigVelEdge
    \/ Enable
    \/ Standby
    \/ EnableDrives

\* C14 as stated: a rejected command has no side effect at all: the Config,
\* the Telemetry, the remote-commander flag and the staged commanded pose are
\* as they were before it.
C14_RejectedNoEffect ==
    [][ (CommandStep /\ ~command_status'.ack) =>
            /\ config' = config
            /\ telemetry' = telemetry
            /\ is_csc_commander' = is_csc_commander
            /\ commanded_position' = commanded_position ]_vars

\* C14 as amended: a rejected command leaves the Config, the Telemetry and
\* the remote-commander flag as they were; the staged commanded pose is kept
\* only by a rejected position set or position offset, and is cleared by the
\* post-command bookkeeping after every other rejected command.
C14_RejectedKeepsAllButStagedPose ==
    [][ (CommandStep /\ ~command_status'.ack) =>
            /\ config' = config
            /\ telemetry' = telemetry
            /\ is_csc_commander' = is_csc_commander
            /\ commanded_position' =
                    IF command_status'.method \in {"do_position_set", "do_position_offset"}
                    THEN commanded_position
                    ELSE None ]_vars

\* A config acceleration out of its range has just been rejected while
\* enabled and stationary, with changed velocity limits in the Config.
C14_Witness ==
    /\ Enabled /\ Stationary
    /\ command_status.method = "do_config_accel"
    /\ ~command_status.ack
    /\ commanded_position = None
    /\ config.vel_limits = <<100, 300, 200, 400>>

\* C15: the command-source switch succeeds in every state and sub-state and
\* sets the remote-commander flag to true iff param1 is 1; every telemetry
\* cycle carries the DDS_COMMAND_SOURCE bit in application_status iff the
\* flag is true, always together with EUI_CONNECTED and SYNC_MODE, and the GUI
\* then reports the command source CSC iff the bit is set, GUI otherwise.
C15_CommandSource ==
    [][ /\ \A a \in SourceParams :
                run_command(Command("do_switch_command_source", <<a>>)) =>
                    /\ command_status'.ack
                    /\ is_csc_commander' = (a = 1)
        /\ UpdateTelemetry =>
                /\ HasBit(telemetry'.application_status, DDS_COMMAND_SOURCE)
                        <=> is_csc_commander
                /\ HasBit(telemetry'.application_status, EUI_CONNECTED)
                /\ HasBit(telemetry'.application_status, SYNC_MODE)
                /\ command_source(telemetry') =
                        IF is_csc_commander THEN "CSC" ELSE "GUI" ]_vars

\* The command source was switched to the CSC during a move, and a telemetry
\* cycle has reported it since.
C15_Witness ==
    /\ Moving
    /\ command_status.method = "do_switch_command_source"
    /\ command_status.ack
    /\ is_csc_commander
    /\ command_source(telemetry) = "CSC"

\* C16: a pivot set executed while enabled and stationary overwrites the
\* Config pivot with (param1, param2, param3) whatever their values (no range
\* check, param4..param6 ignored) and leaves every other Config field and the
\* motion state (sub-state, measured pose) as they were.
C16_PivotSet ==
    [][ \A p \in PivotParamsFar :
            (Enabled /\ Stationary /\ run_command(Command("do_set_pivot_point", p))) =>
                /\ command_status'.ack
                /\ config' = [config EXCEPT !.pivot = <<p[1], p[2], p[3]>>]
                /\ telemetry' = telemetry ]_vars

\* A pivot outside the pivot range of the GUI has just been set, in a Config
\* with changed velocity limits and at a pose reached by a move.
C16_Witness ==
    /\ Enabled /\ Stationary
    /\ command_status.method = "do_set_pivot_point"
    /\ command_status.ack
    /\ config.pivot = <<600000, -600000, 4000000>>
    /\ config.vel_limits = <<100, 300, 200, 400>>
    /\ Pose = <<0, 0, 150, 0, -5, 0>>

\* C17: the position envelope, the maximum strut displacement and the maximum
\* strut velocity have, after any sequence of commands and telemetry cycles,
\* the values of the construction: the camera table for the camera hexapod
\* and the M2 table otherwise, 14100 and 500; and before the first command no
\* pose is staged, the acceleration is MAX_ACCEL_LIMIT and the drives are not
\* enabled.
C17_FixedLimits ==
    /\ config.pos_limits =
            IF hexapod_type = "CAMERA_HEXAPOD"
            THEN <<CAM_XY_MAX_MIC, CAM_Z_MIN_MIC, CAM_Z_MAX_MIC,
                   CAM_UV_MAX_DEG, CAM_W_MIN_DEG, CAM_W_MAX_DEG>>
            ELSE <<M2_XY_MAX_MIC, M2_Z_MIN_MIC, M2_Z_MAX_MIC,
                   M2_UV_MAX_DEG, M2_W_MIN_DEG, M2_W_MAX_DEG>>
    /\ config.max_displacement_strut = 14100
    /\ config.max_velocity_strut = 500
    /\ command_status.method = "none" =>
            /\ commanded_position = None
            /\ config.acceleration_strut = MAX_ACCEL_LIMIT
            /\ ~config.drives_enabled

\* The M2 hexapod after the acceleration, the velocity limits, the pivot and
\* the drives of its Config have all been changed and a move has completed.
C17_Witness ==
    /\ hexapod_type = "M2_HEXAPOD"
    /\ config.acceleration_strut = 1
    /\ config.vel_limits = <<100, 300, 200, 400>>
    /\ config.pivot = <<600000, -600000, 4000000>>
    /\ config.drives_enabled
    /\ Stationary
    /\ Pose = <<0, 0, 150, 0, -5, 0>>

\* The Telemetry fields that a cycle assigns once, with the number of the
\* assignment.
AssignedOnce ==
    { <<"latching_fault_status_register", 1>>, <<"input_pin_states", 2>>,
      <<"copley_fault_status_register", 3>>, <<"motor_current", 7>>,
      <<"bus_voltage", 8>>, <<"measured_xyz", 9>>, <<"measured_uvw", 10>>,
      <<"enabled_substate", 17>> }

\* The base pattern of the status word.
BaseStatusWord ==
    IF config.drives_enabled THEN STATUS_WORD_ENABLED ELSE STATUS_WORD_DISABLED

\* C18: a failure raised at any assignment of a telemetry cycle is caught
\* inside the cycle and does not reach the caller; the fields assigned before
\* the failure have the values of the cycle, the fields after it keep their
\* previous values; and the later cycles run normally: a move in progress
\* still arrives at its target unless it is stopped.
C18_FaultCaught ==
    /\ [][ \A k \in 1..NUM_ASSIGNMENT :
              (command_status' = command_status /\ FaultAt(k)) =>
                \E full \in {update_telemetry(Ctl).telemetry} :
                   /\ ~telemetry_raised'
                   /\ \A f \in AssignedOnce :
                        telemetry'[f[1]] =
                            IF f[2] < k THEN full[f[1]] ELSE telemetry[f[1]]
                   /\ \A idx \in 1..NUM_STRUT :
                        telemetry'.estimated_pos[idx] =
                            IF 10 + idx < k THEN full.estimated_pos[idx]
                            ELSE telemetry.estimated_pos[idx]
                   /\ telemetry'.application_status =
                        IF k <= 5 THEN telemetry.application_status
                        ELSE IF k = 6 THEN EUI_CONNECTED + SYNC_MODE
                        ELSE full.application_status
                   /\ telemetry'.status_word =
                        IF k <= 4 THEN telemetry.status_word
                        ELSE IF k <= 17 THEN Rep(BaseStatusWord, NUM_STRUT)
                        ELSE full.status_word ]_vars
    /\ Moving ~> (Arrived \/ command_status.method = "do_stop")

\* A cycle of a move with the drives enabled has failed between the
\* assignment of the measured pose and the assignment of the strut positions:
\* the hexapod has advanced on z and v, the strut positions are those of the
\* start, the status word is the base pattern, and the move goes on.
C18_Witness ==
    /\ Moving
    /\ ~telemetry_raised
    /\ Pose = <<0, 0, 100, 0, -5, 0>>
    /\ telemetry.estimated_pos = Rep(ZeroStrut, NUM_STRUT)
    /\ telemetry.status_word = Rep(STATUS_WORD_ENABLED, NUM_STRUT)

\* The Telemetry fields that the four sections of a cycle assign (the status
\* word, assigned by the first and the last section, apart).
SectionFields ==
    << {"latching_fault_status_register", "input_pin_states",
        "copley_fault_status_register"},
       {"application_status"},
       {"motor_current", "bus_voltage"},
       {"measured_xyz", "measured_uvw", "estimated_pos", "enabled_substate"} >>

\* C19 as stated: a failure in one section of a telemetry cycle does not
\* prevent the other sections of the cycle from being executed: their fields
\* have the values of the cycle.
C19_SectionsIndependent ==
    [][ \A k \in 1..NUM_ASSIGNMENT :
            (command_status' = command_status /\ FaultAt(k)) =>
                \E full \in {update_telemetry(Ctl).telemetry} :
                    \A i \in (1..4) \ {SectionOf(k)} :
                        \A f \in SectionFields[i] : telemetry'[f] = full[f] ]_vars

\* C19 as amended: a failure in one section of a telemetry cycle is caught
\* and does not prevent the sections before it from being executed: their
\* fields have the values of the cycle; the sections after it are not
\* executed in that cycle: their fields keep their previous values.
C19_SectionsInOrder ==
    [][ \A k \in 1..NUM_ASSIGNMENT :
            (command_status' = command_status /\ FaultAt(k)) =>
                \E full \in {update_telemetry(Ctl).telemetry} :
                    /\ ~telemetry_raised'
                    /\ \A i \in 1..4 : \A f \in SectionFields[i] :
                            /\ i < SectionOf(k) => telemetry'[f] = full[f]
                            /\ i > SectionOf(k) => telemetry'[f] = telemetry[f]
                    /\ SectionOf(k) \in {2, 3} =>
                            telemetry'.status_word = Rep(BaseStatusWord, NUM_STRUT) ]_vars

\* A cycle run with the drives enabled and the CSC as the command source has
\* failed in its third section: the status word and the application status
\* are those of the cycle, the motor current is still zero.
C19_Witness ==
    /\ config.drives_enabled
    /\ telemetry.status_word = Rep(STATUS_WORD_ENABLED, NUM_STRUT)
    /\ telemetry.application_status = EUI_CONNECTED + SYNC_MODE + DDS_COMMAND_SOURCE
    /\ telemetry.motor_current = Rep(0, NUM_STRUT)

\* C20: immediately after every telemetry cycle that runs through, the six
\* status words are equal: the base pattern (0x631 if the drives are enabled,
\* else 0x670) with the amplifier-move bit 0x4000 set iff the sub-state after
\* the cycle is MOVING_POINT_TO_POINT.  The cycle that completes a move
\* leaves STATIONARY without the bit, and so does a cycle run while
\* stationary.
C20_StatusWord ==
    [][ UpdateTelemetry =>
            /\ telemetry'.status_word =
                    Rep((IF config.drives_enabled THEN 1585 ELSE 1648)
                            + (IF Moving' THEN 16384 ELSE 0), NUM_STRUT)
            /\ (Moving /\ ~Moving') =>
                    \A idx \in 1..NUM_STRUT :
                        ~HasBit(telemetry'.status_word[idx], AMPLIFIER_MOVE_BIT)
            /\ ~Moving => ~Moving' ]_vars

\* The cycle that completed a move with the drives enabled has just run: the
\* hexapod is stationary at the target and the status words are 0x631.
C20_Witness ==
    /\ Arrived
    /\ command_status.method = "do_move_point_to_point"
    /\ Pose = <<0, 0, 150, 0, -5, 0>>
    /\ config.drives_enabled
    /\ telemetry.status_word = Rep(1585, NUM_STRUT)

\* No status word of the telemetry carries the amplifier-moving bit.
NoMoveBit ==
    \A i \in 1..NUM_STRUT : ~HasBit(telemetry.status_word[i], AMPLIFIER_MOVE_BIT)

\* C21: in a telemetry cycle of a move, an axis whose measured value equals
\* its target is left unchanged; and when the measured pose equals the target
\* on all six axes (a move to the current pose), that cycle ends the move:
\* the pose is unchanged, the sub-state is STATIONARY again, and no status
\* word of the cycle carries the amplifier-moving bit.
C21_TieBreak ==
    [][ (Moving /\ UpdateTelemetry) =>
            /\ \A i \in 1..NUM_DEGREE_OF_FREEDOM :
                  (Pose[i] = telemetry.commanded_pos[i]) =>
                      /\ Pose'[i] = Pose[i]
                      /\ _move_position(Pose[i], telemetry.commanded_pos[i], AxisStep(i))
                             = <<TRUE, Pose[i]>>
            /\ (Pose = telemetry.commanded_pos) =>
                  /\ Pose' = Pose
                  /\ Stationary'
                  /\ NoMoveBit' ]_vars

\* A move to the pose the hexapod already has was accepted, away from zero:
\* the cycle that follows starts with every axis at its target.
C21_Witness ==
    /\ Moving
    /\ command_status.method = "do_move_point_to_point"
    /\ command_status.ack
    /\ Pose = <<100, 200, 250, 10, -20, 5>>
    /\ telemetry.commanded_pos = Pose
    /\ move_start = Pose

\* The commands that change the configuration, and those the controller
\* implements that do not.
ConfigMethods == {"do_set_pivot_point", "do_config_accel", "do_config_vel"}
NonConfigMethods ==
    {"do_position_set", "do_position_offset", "do_move_point_to_point", "do_stop",
     "do_switch_command_source", "do_set_raw_strut", "do_mask_limit_switch"}

\* C22: the last command emitted the configuration record exactly once, with
\* the configuration as the command left it, if it was an accepted pivot
\* set, config acceleration or config velocity; it emitted nothing if it was
\* one of these and was rejected, or if it was a position set, position
\* offset, move, stop, command-source switch, raw strut or limit-switch
\* command.  (Telemetry cycles do not change the configuration.)
C22_ConfigWritten ==
    /\ (command_status.method \in ConfigMethods) =>
          /\ command_status.config_written =
                 IF command_status.ack THEN <<config>> ELSE << >>
          /\ command_status.wrote_config = command_status.ack
    /\ (command_status.method \in NonConfigMethods) =>
          /\ command_status.config_written = << >>
          /\ ~command_status.wrote_config

\* A config velocity has been accepted and one record, with the new limits,
\* was emitted.
C22_Witness ==
    /\ command_status.method = "do_config_vel"
    /\ command_status.ack
    /\ config.vel_limits = <<100, 300, 200, 400>>
    /\ Len(command_status.config_written) = 1
    /\ command_status.config_written[1].vel_limits = <<100, 300, 200, 400>>

\* A config acceleration has just been rejected during a move: nothing was
\* emitted.
C22_WitnessRejected ==
    /\ Moving
    /\ command_status.method = "do_config_accel"
    /\ ~command_status.ack
    /\ command_status.config_written = << >>

(***************************************************************************)
(* Commands and telemetry cycles on the event loop.  The handlers and      *)
(* update_telemetry are coroutines that run without interruption up to an  *)
(* await; the only await of the handlers is the `await                     *)
(* self.write_config()` that ends do_set_pivot_point, do_config_accel and  *)
(* do_config_vel, where a telemetry cycle can run before end_run_command.  *)
(***************************************************************************)
\* The handler of a config command runs up to its await of write_config and
\* is suspended there: the reply is not sent, end_run_command has not run.
run_command_until_write_config(command) ==
    LET r == Handle(Ctl, command)
    IN /\ in_write_config = "none"
       /\ r.ok
       /\ r.s.written
       /\ Install(r.s)
       /\ in_write_config' = command.method
       /\ UNCHANGED <<command_status, move_start, telemetry_raised>>

\* write_config returns: the handler ends and end_run_command runs.
run_command_after_write_config ==
    LET s == end_run_command(Ctl, in_write_config)
    IN /\ in_write_config # "none"
       /\ Install(s)
       /\ command_status' = [method |-> in_write_config, ack |-> TRUE,
                             wrote_config |-> TRUE, config_written |-> <<config>>]
       /\ in_write_config' = "none"
       /\ UNCHANGED <<move_start, telemetry_raised>>

AccelParamsAsync == {1, 2}

ConfigAccelSuspend ==
    \E a \in AccelParamsAsync :
        run_command_until_write_config(Command("do_config_accel", <<a>>))
SetPivotPointSuspend ==
    \E p \in PivotParams :
        run_command_until_write_config(Command("do_set_pivot_point", p))

NextAsync ==
    \/ Move
    \/ Stop
    \/ PositionSet(PositionParamsAll)
    \/ Enable
    \/ ConfigAccel
    \/ ConfigAccelSuspend
    \/ SetPivotPointSuspend
    \/ run_command_after_write_config
    \/ UpdateTelemetry

SpecAsync == Init /\ [][NextAsync]_vars

\* The telemetry holds the commanded values of one move: the target, the
\* strut positions of that target and the configured acceleration.
MoveApplied ==
    /\ telemetry.strut_commanded_final_pos =
           _hexapod_position_to_strut_position(telemetry.commanded_pos)
    /\ telemetry.strut_commanded_accel = Rep(config.acceleration_strut, NUM_STRUT)

\* C23: commands are atomic for the telemetry cycles.  Whenever the sub-state
\* is MOVING, the commanded pose, the commanded final strut positions and the
\* commanded accelerations are those the move command wrote, from the pose
\* staged for it, and they do not change while the move lasts; a cycle
\* changes the measured pose only toward that target; and a cycle that runs
\* while a config handler is suspended in write_config, before
\* end_run_command, produces the telemetry it would produce after the whole
\* command.
C23_AtomicCommands ==
    [][ /\ Moving' => MoveApplied'
        /\ (~Moving /\ Moving') =>
              /\ Move
              /\ commanded_position # None
              /\ telemetry'.commanded_pos = commanded_position
        /\ (Moving /\ Moving') =>
              /\ telemetry'.commanded_pos = telemetry.commanded_pos
              /\ telemetry'.strut_commanded_final_pos = telemetry.strut_commanded_final_pos
              /\ telemetry'.strut_commanded_accel = telemetry.strut_commanded_accel
        /\ (Pose' # Pose) =>
              /\ Moving
              /\ UpdateTelemetry
              /\ \A i \in 1..NUM_DEGREE_OF_FREEDOM :
                    Between(Pose[i], Pose'[i], telemetry.commanded_pos[i])
        /\ (in_write_config # "none" /\ UpdateTelemetry) =>
              \E after \in {end_run_command(Ctl, in_write_config)} :
                  telemetry' = update_telemetry(after).telemetry ]_vars

\* A cycle of a move has run: the move was commanded after the acceleration
\* was configured to 2, with a pose staged, and the pose is on its way.
C23_Witness ==
    /\ Moving
    /\ MoveApplied
    /\ config.acceleration_strut = 2
    /\ telemetry.strut_commanded_accel = Rep(2, NUM_STRUT)
    /\ telemetry.commanded_pos = <<0, 0, 150, 0, -5, 0>>
    /\ Pose = <<0, 0, 100, 0, -5, 0>>

\* A config acceleration is suspended in write_config with a pose staged and
\* the new acceleration already in the configuration.
C23_WitnessSuspended ==
    /\ in_write_config = "do_config_accel"
    /\ commanded_position # None
    /\ config.acceleration_strut = 2
    /\ HasBit(telemetry.application_status, EUI_CONNECTED)

(***************************************************************************)
(* The float64 arithmetic of the angular axes.  The poses are Python       *)
(* floats; 100 (um) and whole microns add without rounding, 0.01 (deg) is  *)
(* not a binary fraction and every addition of it rounds.  A float64 of    *)
(* magnitude below 1 that is a multiple of 2^-60 (zero, or any float64 of  *)
(* magnitude from 2^-8 up, and every sum or difference of two of them) is  *)
(* a sign and a magnitude in units of 2^-60, held as three limbs of 20     *)
(* bits, the most significant first.                                       *)
(***************************************************************************)
Limb == 2^20

F64(neg, m2, m1, m0) == [neg |-> neg, m |-> <<m2, m1, m0>>]

MagLess(a, b) ==
    \/ a[1] < b[1]
    \/ a[1] = b[1] /\ a[2] < b[2]
    \/ a[1] = b[1] /\ a[2] = b[2] /\ a[3] < b[3]

MagAdd(a, b) ==
    LET s0 == a[3] + b[3]
        s1 == a[2] + b[2] + (s0 \div Limb)
    IN <<a[1] + b[1] + (s1 \div Limb), s1 % Limb, s0 % Limb>>

\* a - b for a >= b
MagSub(a, b) ==
    LET d0 == a[3] - b[3]
        b0 == IF d0 < 0 THEN 1 ELSE 0
        d1 == a[2] - b[2] - b0
        b1 == IF d1 < 0 THEN 1 ELSE 0
    IN <<a[1] - b[1] - b1, d1 + b1 * Limb, d0 + b0 * Limb>>

RECURSIVE Log2(_)
Log2(n) == IF n <= 1 THEN 0 ELSE 1 + Log2(n \div 2)

\* The magnitude rounded to the 53 significant bits of a float64, to the
\* nearest, ties to even.
MagRound(a) ==
    LET d == IF a[1] = 0 THEN 0 ELSE Log2(a[1]) + 40 - 52
    IN IF d <= 0 THEN a
       ELSE LET unit == 2^d
                r == a[3] % unit
                down == <<a[1], a[2], a[3] - r>>
                odd == (a[3] \div unit) % 2 = 1
            IN IF 2 * r > unit \/ (2 * r = unit /\ odd)
               THEN MagAdd(down, <<0, 0, unit>>)
               ELSE down

\* x + y in float64
float64_add(x, y) ==
    IF x.neg = y.neg THEN [neg |-> x.neg, m |-> MagRound(MagAdd(x.m, y.m))]
    ELSE IF x.m = y.m THEN F64(FALSE, 0, 0, 0)
    ELSE IF MagLess(x.m, y.m) THEN [neg |-> y.neg, m |-> MagRound(MagSub(y.m, x.m))]
    ELSE [neg |-> x.neg, m |-> MagRound(MagSub(x.m, y.m))]

\* x < y in float64
float64_less(x, y) ==
    IF x.neg /\ ~y.neg THEN TRUE
    ELSE IF ~x.neg /\ y.neg THEN FALSE
    ELSE IF x.neg THEN MagLess(y.m, x.m)
    ELSE MagLess(x.m, y.m)

float64_neg(x) == IF x.m = <<0, 0, 0>> THEN x ELSE [x EXCEPT !.neg = ~x.neg]

\* The float64 nearest to a decimal number of millidegrees, in degrees.
float64_of_millideg(k) ==
    CASE k = 0 -> F64(FALSE, 0, 0, 0)
      [] k = 5 -> F64(FALSE, 5242, 922746, 922747)
      [] k = 10 -> F64(FALSE, 10485, 796917, 796918)
      [] k = 50 -> F64(FALSE, 52428, 838860, 838864)
      [] k = 70 -> F64(FALSE, 73400, 335544, 335552)
      [] k = 100 -> F64(FALSE, 104857, 629145, 629152)
      [] k = -100 -> F64(TRUE, 104857, 629145, 629152)
      [] k = 120 -> F64(FALSE, 125829, 125829, 125824)

\* CYCLE_MOVE_POSITION_DEG = 0.01 as a float64
CYCLE_MOVE_POSITION_DEG_FLOAT64 == float64_of_millideg(CYCLE_MOVE_POSITION_DEG)

\* _move_position on floats: np.sign of the float difference is the sign of
\* the exact difference, and direction * step is exact.
_move_position_float64(position_current, position_target, step) ==
    IF position_current = position_target THEN <<TRUE, position_current>>
    ELSE LET direction == IF float64_less(position_current, position_target)
                          THEN 1 ELSE -1
             position_new == float64_add(position_current,
                                 IF direction > 0 THEN step ELSE float64_neg(step))
         IN IF direction > 0 /\ ~float64_less(position_new, position_target)
                THEN <<TRUE, position_target>>
            ELSE IF direction < 0 /\ ~float64_less(position_target, position_new)
                THEN <<TRUE, position_target>>
            ELSE <<FALSE, position_new>>

\* The moving branch of update_telemetry on a move f: the linear axes in whole
\* microns, the angular axes in float64 degrees.
update_telemetry_float64(f) ==
    LET xyz == [i \in 1..3 |->
                   _move_position(f.measured_xyz[i], f.commanded_pos[i],
                                  CYCLE_MOVE_POSITION_UM)]
        uvw == [i \in 1..3 |->
                   _move_position_float64(f.measured_uvw[i],
                                          float64_of_millideg(f.commanded_pos[3 + i]),
                                          CYCLE_MOVE_POSITION_DEG_FLOAT64)]
    IN IF f.enabled_substate # "MOVING_POINT_TO_POINT" THEN f
       ELSE [f EXCEPT
               !.measured_xyz = [i \in 1..3 |-> xyz[i][2]],
               !.measured_uvw = [i \in 1..3 |-> uvw[i][2]],
               !.cycles = @ + 1,
               !.enabled_substate =
                   IF is_done(xyz[1][1], xyz[2][1], xyz[3][1],
                              uvw[1][1], uvw[2][1], uvw[3][1])
                   THEN "STATIONARY" ELSE @]

\* Poses (um, millidegrees) of the moves in float64; the second is the pose
\* (100, 200, 300, 0.1, -0.1, 0.005).
Float64Poses ==
    {<<0, 0, 0, 0, 0, 0>>, <<100, 200, 300, 100, -100, 5>>, <<0, 0, 0, 70, 0, 0>>,
     <<1000, 0, 0, 0, 0, 50>>, <<0, 0, 0, 120, 0, 0>>}

\* A move is commanded from the pose of the last target, where the hexapod is.
MoveFloat64 ==
    \E target \in Float64Poses :
        /\ float64_move.enabled_substate = "STATIONARY"
        /\ float64_move' = [float64_move EXCEPT
                               !.start = float64_move.commanded_pos,
                               !.commanded_pos = target,
                               !.cycles = 0,
                               !.enabled_substate = "MOVING_POINT_TO_POINT"]
        /\ UNCHANGED <<telemetry, config, commanded_position, is_csc_commander,
                       command_status, move_start, hexapod_type, telemetry_raised,
                       in_write_config, control_panel, model_status>>

UpdateTelemetryFloat64 ==
    /\ float64_move.enabled_substate = "MOVING_POINT_TO_POINT"
    /\ float64_move' = update_telemetry_float64(float64_move)
    /\ UNCHANGED <<telemetry, config, commanded_position, is_csc_commander,
                   command_status, move_start, hexapod_type, telemetry_raised,
                   in_write_config, control_panel, model_status>>

NextFloat64 ==
    \/ MoveFloat64
    \/ UpdateTelemetryFloat64

SpecFloat64 == Init /\ [][NextFloat64]_vars

Max(a, b) == IF a >= b THEN a ELSE b

\* ceil(|t_i - p_i| / step_i) of axis i for decimal poses p and t
AxisCycles(p, t, i) == (Abs(t[i] - p[i]) + AxisStep(i) - 1) \div AxisStep(i)

\* max(1, max over the six axes of ceil(|t_i - p_i| / step_i))
MoveCycles(p, t) ==
    Max(1, Max(Max(AxisCycles(p, t, 1), Max(AxisCycles(p, t, 2), AxisCycles(p, t, 3))),
               Max(AxisCycles(p, t, 4), Max(AxisCycles(p, t, 5), AxisCycles(p, t, 6)))))

\* The float64 move is over and the measured pose is the target.
Float64Arrived ==
    /\ float64_move.enabled_substate = "STATIONARY"
    /\ float64_move.cycles > 0
    /\ float64_move.measured_xyz = SubSeq(float64_move.commanded_pos, 1, 3)
    /\ float64_move.measured_uvw =
           [i \in 1..3 |-> float64_of_millideg(float64_move.commanded_pos[3 + i])]

\* C24 as stated: a move from pose p to target t is over after exactly
\* max(1, max_i ceil(|t_i - p_i| / step_i)) telemetry cycles and is MOVING
\* after every earlier cycle.
C24_ExactCycles ==
    LET n == MoveCycles(float64_move.start, float64_move.commanded_pos)
    IN /\ (float64_move.enabled_substate = "MOVING_POINT_TO_POINT") =>
              float64_move.cycles < n
       /\ (float64_move.enabled_substate = "STATIONARY" /\ float64_move.cycles > 0) =>
              float64_move.cycles = n

\* C24 (amended): with n = max(1, max_i ceil(|t_i - p_i| / step_i)), a move
\* between poses of whole microns and millidegrees is over, at the target,
\* after n or n + 1 telemetry cycles, and is MOVING after every earlier
\* cycle.
C24_CyclesOrOneMore ==
    LET n == MoveCycles(float64_move.start, float64_move.commanded_pos)
    IN /\ (float64_move.enabled_substate = "MOVING_POINT_TO_POINT") =>
              float64_move.cycles <= n
       /\ (float64_move.enabled_substate = "STATIONARY" /\ float64_move.cycles > 0) =>
              /\ float64_move.cycles \in {n, n + 1}
              /\ Float64Arrived

\* The move from zero to (100, 200, 300, 0.1, -0.1, 0.005) is over after 11
\* cycles: ten additions of 0.01 give 0.09999999999999999.
C24_Witness ==
    /\ Float64Arrived
    /\ float64_move.start = <<0, 0, 0, 0, 0, 0>>
    /\ float64_move.commanded_pos = <<100, 200, 300, 100, -100, 5>>
    /\ float64_move.cycles = 11

\* The move from zero to u = 0.07 is over after 7 cycles.
C24_WitnessExact ==
    /\ Float64Arrived
    /\ float64_move.start = <<0, 0, 0, 0, 0, 0>>
    /\ float64_move.commanded_pos = <<0, 0, 0, 70, 0, 0>>
    /\ float64_move.cycles = 7

\* C25: the measured pose and the estimated strut positions change only in a
\* telemetry cycle that starts in MOVING_POINT_TO_POINT, so no command
\* changes them; and a cycle that starts in STATIONARY leaves the measured
\* pose, the strut positions and the sub-state unchanged, also when
\* telemetry.commanded_pos holds the target of a stopped move.
C25_PoseFrame ==
    [][ /\ (Pose' # Pose \/ telemetry'.estimated_pos # telemetry.estimated_pos) =>
              (Moving /\ UpdateTelemetry)
        /\ (Stationary /\ UpdateTelemetry) =>
              /\ Pose' = Pose
              /\ telemetry'.estimated_pos = telemetry.estimated_pos
              /\ Stationary'
              /\ telemetry'.commanded_pos = telemetry.commanded_pos ]_vars

\* A move toward z = 150 was stopped at z = 100 and a cycle has run since the
\* stop (no amplifier-moving bit is left): the pose is not the commanded pose.
C25_Witness ==
    /\ Enabled /\ Stationary
    /\ command_status.method = "do_stop"
    /\ telemetry.commanded_pos = <<0, 0, 150, 0, -5, 0>>
    /\ Pose = <<0, 0, 100, 0, -5, 0>>
    /\ telemetry.estimated_pos =
           [idx \in 1..NUM_STRUT |->
               M_TO_UM(_hexapod_position_to_strut_position(Pose)[idx])]
    /\ NoMoveBit

\* C26: from the initial zero pose and zero strut positions on, the six
\* estimated strut positions are the transform of the measured pose, in
\* microns, in every state between fault-free cycles, the state after the
\* cycle that completes a move included: struts 0, 2 and 4 hold
\* z*sqrt(3) + rz + x + ry and struts 1, 3 and 5 hold z*sqrt(3) + rz + y + rx.
C26_StrutsFollowPose ==
    /\ telemetry.estimated_pos =
           [idx \in 1..NUM_STRUT |->
               M_TO_UM(_hexapod_position_to_strut_position(Pose)[idx])]
    /\ \A idx \in 1..NUM_STRUT :
           telemetry.estimated_pos[idx] = M_TO_UM(ExpectedStruts(Pose)[idx])
    /\ telemetry.estimated_pos[1] = telemetry.estimated_pos[3]
    /\ telemetry.estimated_pos[3] = telemetry.estimated_pos[5]
    /\ telemetry.estimated_pos[2] = telemetry.estimated_pos[4]
    /\ telemetry.estimated_pos[4] = telemetry.estimated_pos[6]

\* The cycle that completed the move to (100, 200, 250, 0.01, -0.02, 0.005)
\* has run: the two groups of struts hold different positions.
C26_Witness ==
    /\ Arrived
    /\ Pose = <<100, 200, 250, 10, -20, 5>>
    /\ telemetry.estimated_pos[1] = [r3 |-> 250, r1 |-> 85, e |-> 0]
    /\ telemetry.estimated_pos[2] = [r3 |-> 250, r1 |-> 215, e |-> 0]

\* C27: in every state after a command (handler and end_run_command) and
\* after every telemetry cycle, a staged pose implies the sub-state
\* STATIONARY: while MOVING_POINT_TO_POINT nothing is staged, the target is
\* in telemetry.commanded_pos, and no step changes it as long as the move
\* lasts.
C27_StagedOnlyStationary ==
    /\ [](commanded_position # None => Stationary)
    /\ [][ (Moving /\ Moving') =>
               /\ commanded_position' = None
               /\ telemetry'.commanded_pos = telemetry.commanded_pos ]_vars

\* During a move a position set has just been rejected: nothing is staged and
\* the target of the move is in the telemetry.
C27_Witness ==
    /\ Moving
    /\ command_status.method = "do_position_set"
    /\ ~command_status.ack
    /\ commanded_position = None
    /\ telemetry.commanded_pos = <<0, 0, 150, 0, -5, 0>>
    /\ Pose = <<0, 0, 100, 0, -5, 0>>

(***************************************************************************)
(* The send-command button of the control panel                            *)
(* (control_panel.py, ControlPanel._callback_send_command).  The callback  *)
(* is a coroutine; control_panel.pc is the await it has reached.  The      *)
(* selection is read when the callback starts, and the connection does not *)
(* change while it runs.  Of a command, the code and the first two         *)
(* parameters are kept; parameters read from the spin boxes are 0.         *)
(***************************************************************************)
CommandNames ==
    {"state", "enabled_substate", "position", "position_offset", "position_raw",
     "pivot", "commander", "mask", "config_velocity", "config_acceleration"}
TriggerStates == {"Enable", "StandBy", "ClearError"}
TriggerEnabledSubStates == {"Move", "Stop"}
MotionPatterns == {"Sync", "Async"}

make_command(code, param1, param2) == [code |-> code, param1 |-> param1, param2 |-> param2]

\* Mutant: the parameters of Enable and StandBy are exchanged.
make_command_state_swapped(trigger_state) ==
    IF trigger_state = "Enable" THEN make_command("SET_STATE", 3, 0)
    ELSE IF trigger_state = "StandBy" THEN make_command("SET_STATE", 2, 0)
    ELSE make_command("SET_STATE", 6, 0)

make_command_state(trigger_state) ==
    IF trigger_state = "Enable" THEN make_command("SET_STATE", 2, 0)
    ELSE IF trigger_state = "StandBy" THEN make_command("SET_STATE", 3, 0)
    ELSE make_command("SET_STATE", 6, 0)

make_command_enabled_substate(trigger_enabled_substate, motion_pattern) ==
    IF trigger_enabled_substate = "Move"
    THEN make_command("SET_ENABLED_SUBSTATE", 1, IF motion_pattern = "Async" THEN 1 ELSE 0)
    ELSE make_command("SET_ENABLED_SUBSTATE", 3, 0)

\* The command made by the match statement for the selection of panel c.
selected_command(c) ==
    CASE c.name = "state" -> make_command_state(c.trigger_state)
      [] c.name = "enabled_substate" ->
             make_command_enabled_substate(c.trigger_enabled_substate, c.motion_pattern)
      [] c.name = "position" -> make_command("POSITION_SET", 0, 0)
      [] c.name = "position_offset" -> make_command("POSITION_OFFSET", 0, 0)
      [] c.name = "position_raw" -> make_command("SET_RAW_STRUT", 0, 0)
      [] c.name = "pivot" -> make_command("SET_PIVOT_POINT", 0, 0)
      [] c.name = "commander" -> make_command("CMD_SOURCE", 0, 0)
      [] c.name = "mask" -> make_command("MASK_LIMIT_SW", 0, 0)
      [] c.name = "config_velocity" -> make_command("CONFIG_VEL", 0, 0)
      [] c.name = "config_acceleration" -> make_command("CONFIG_ACCEL", 0, 0)
      [] OTHER -> make_command("DEFAULT", 0, 0)

\* Model.enable_drives: the command it sends.
enable_drives(status) == make_command("ENABLE_DRIVES", IF status THEN 1 ELSE 0, 0)

\* _check_dangerous_commands: a warning dialog is shown.
dangerous(c) == c.name = "position_raw" \/ c.motion_pattern = "Async"

\* Mutant: the drives are not turned on before the command.
before_send_late_drives(name, trigger_state, command) ==
    IF name = "state" /\ trigger_state = "ClearError" THEN <<command>> ELSE << >>

\* The commands sent before the selected command.
before_send(name, trigger_state, command) ==
    IF name = "state" /\ trigger_state = "Enable" THEN <<enable_drives(TRUE)>>
    ELSE IF name = "state" /\ trigger_state = "ClearError" THEN <<command>>
    ELSE << >>

\* The commands sent after the selected command.
after_send(name, trigger_state) ==
    IF name = "state" /\ trigger_state = "StandBy" THEN <<enable_drives(FALSE)>>
    ELSE << >>

PanelUnchanged ==
    UNCHANGED <<telemetry, config, commanded_position, is_csc_commander,
                command_status, move_start, hexapod_type, telemetry_raised,
                in_write_config, float64_move, model_status>>

\* The button is clicked with some selection of the panel.
SendCommandClicked ==
    \E name \in CommandNames \cup {""}, trigger_state \in TriggerStates,
       trigger_enabled_substate \in TriggerEnabledSubStates,
       motion_pattern \in MotionPatterns :
        \E c \in {[control_panel EXCEPT
                      !.name = name, !.trigger_state = trigger_state,
                      !.trigger_enabled_substate = trigger_enabled_substate,
                      !.motion_pattern = motion_pattern,
                      !.result = "none", !.sent = << >>]} :
            /\ control_panel.pc = "idle"
            /\ control_panel' =
                   [c EXCEPT !.pc = IF dangerous(c) THEN "dialog"
                                    ELSE "assert_is_connected"]
            /\ PanelUnchanged

\* await dialog.show() returns.
DialogAnswered ==
    \E result \in {"Ok", "Cancel"} :
        /\ control_panel.pc = "dialog"
        /\ control_panel' =
               IF result = "Cancel"
               THEN [control_panel EXCEPT !.pc = "idle", !.result = "cancelled"]
               ELSE [control_panel EXCEPT !.pc = "assert_is_connected"]
        /\ PanelUnchanged

\* run_command(self.model.assert_is_connected)
AssertIsConnected ==
    /\ control_panel.pc = "assert_is_connected"
    /\ control_panel' =
           IF control_panel.connected
           THEN [control_panel EXCEPT !.pc = "before_send"]
           ELSE [control_panel EXCEPT !.pc = "idle", !.result = "not_connected"]
    /\ PanelUnchanged

BeforeSend ==
    /\ control_panel.pc = "before_send"
    /\ control_panel' =
           [control_panel EXCEPT
               !.pc = "send",
               !.sent = @ \o before_send(control_panel.name, control_panel.trigger_state,
                                         selected_command(control_panel))]
    /\ PanelUnchanged

Send ==
    /\ control_panel.pc = "send"
    /\ control_panel' = [control_panel EXCEPT
                            !.pc = "after_send",
                            !.sent = Append(@, selected_command(control_panel))]
    /\ PanelUnchanged

AfterSend ==
    /\ control_panel.pc = "after_send"
    /\ control_panel' =
           [control_panel EXCEPT
               !.pc = "idle", !.result = "sent",
               !.sent = @ \o after_send(control_panel.name, control_panel.trigger_state)]
    /\ PanelUnchanged

\* The client connects or disconnects while no callback runs.
ConnectionChanged ==
    /\ control_panel.pc = "idle"
    /\ control_panel' = [control_panel EXCEPT !.connected = ~@]
    /\ PanelUnchanged

NextPanel ==
    \/ SendCommandClicked
    \/ DialogAnswered
    \/ AssertIsConnected
    \/ BeforeSend
    \/ Send
    \/ AfterSend
    \/ ConnectionChanged

SpecPanel == Init /\ [][NextPanel]_vars

IsPrefix(s, u) == Len(s) <= Len(u) /\ s = SubSeq(u, 1, Len(s))

\* The commands a completed callback has sent for the selection of panel c.
SentFor(c) ==
    IF c.name = "state" /\ c.trigger_state = "Enable"
        THEN << [code |-> "ENABLE_DRIVES", param1 |-> 1, param2 |-> 0],
                [code |-> "SET_STATE", param1 |-> 2, param2 |-> 0] >>
    ELSE IF c.name = "state" /\ c.trigger_state = "StandBy"
        THEN << [code |-> "SET_STATE", param1 |-> 3, param2 |-> 0],
                [code |-> "ENABLE_DRIVES", param1 |-> 0, param2 |-> 0] >>
    ELSE IF c.name = "state"
        THEN << [code |-> "SET_STATE", param1 |-> 6, param2 |-> 0],
                [code |-> "SET_STATE", param1 |-> 6, param2 |-> 0] >>
    ELSE << selected_command(c) >>

\* C28: the send-command callback sends nothing when the warning dialog is
\* cancelled or the client is not connected.  Otherwise it sends, in this
\* order: for Enable, ENABLE_DRIVES(1) then SET_STATE(2); for StandBy,
\* SET_STATE(3) then ENABLE_DRIVES(0); for ClearError, SET_STATE(6) twice and
\* no drive command; for any other selection, its command once and no drive
\* command.  While the callback runs, what it has sent is a prefix of that.
C28_SendOrder ==
    /\ IsPrefix(control_panel.sent, SentFor(control_panel))
    /\ (control_panel.result \in {"cancelled", "not_connected"}) =>
           control_panel.sent = << >>
    /\ (control_panel.pc \in {"dialog", "assert_is_connected"}) =>
           control_panel.sent = << >>
    /\ (control_panel.result = "sent") =>
           control_panel.sent = SentFor(control_panel)
    /\ (control_panel.name # "state" \/ control_panel.trigger_state = "ClearError") =>
           \A i \in 1..Len(control_panel.sent) :
               control_panel.sent[i].code # "ENABLE_DRIVES"

\* The callback has completed for the state command Enable: the drives were
\* turned on, then the state command was sent.
C28_Witness ==
    /\ control_panel.pc = "idle"
    /\ control_panel.result = "sent"
    /\ control_panel.name = "state"
    /\ control_panel.trigger_state = "Enable"
    /\ control_panel.sent = <<enable_drives(TRUE), make_command_state("Enable")>>

\* The dialog of the raw position command was cancelled while connected.
C28_WitnessCancelled ==
    /\ control_panel.result = "cancelled"
    /\ control_panel.name = "position_raw"
    /\ control_panel.connected
    /\ control_panel.sent = << >>

(***************************************************************************)
(* Compare and notify in the GUI model (model.py).  A report is a sequence *)
(* of calls of _compare_status_and_report, one per field; model_status     *)
(* holds Model._status, and of the last report its <<field, value>> pairs, *)
(* the signals it emitted and whether it raised TypeError.                 *)
(***************************************************************************)
\* Mutant: the signal is emitted and the status set without comparison.
_compare_status_and_report_always(status, field, value) ==
    IF value.type # status[field].type
    THEN [status |-> status, signals |-> << >>, raised |-> TRUE]
    ELSE [status |-> [status EXCEPT ![field] = value],
          signals |-> << <<field, value>> >>, raised |-> FALSE]

_compare_status_and_report(status, field, value) ==
    IF value.type # status[field].type
    THEN [status |-> status, signals |-> << >>, raised |-> TRUE]
    ELSE IF value # status[field]
    THEN [status |-> [status EXCEPT ![field] = value],
          signals |-> << <<field, value>> >>, raised |-> FALSE]
    ELSE [status |-> status, signals |-> << >>, raised |-> FALSE]

\* The calls of one report, in program order; an exception ends the report.
RECURSIVE report(_, _)
report(status, call) ==
    IF call = << >> THEN [status |-> status, signals |-> << >>, raised |-> FALSE]
    ELSE LET r == _compare_status_and_report(status, call[1][1], call[1][2])
         IN IF r.raised THEN r
            ELSE LET rest == report(r.status, Tail(call))
                 IN [status |-> rest.status, signals |-> r.signals \o rest.signals,
                     raised |-> rest.raised]

\* The enums are reported by their int values.
report_state(source, state, substate_enabled) ==
    << <<"command_source", PyInt(source)>>, <<"state", PyInt(state)>>,
       <<"substate_enabled", PyInt(substate_enabled)>> >>

report_application_status(status) == << <<"application_status", status>> >>

report_drive_status(status_word, latching_fault, copley_status, input_pin) ==
    << <<"status_word", status_word>>, <<"latching_fault", latching_fault>>,
       <<"copley_status", copley_status>>, <<"input_pin", input_pin>> >>

Reported(call) ==
    \E r \in {report(model_status.status, call)} :
        /\ model_status' = [status |-> r.status, call |-> call,
                            signals |-> r.signals, raised |-> r.raised,
                            in_motion |-> model_status.in_motion]
        /\ UNCHANGED <<telemetry, config, commanded_position, is_csc_commander,
                       command_status, move_start, hexapod_type, telemetry_raised,
                       in_write_config, float64_move, control_panel>>

\* Reported values: ints for the application status, and a bool; lists for
\* the drive status, and the tuple of the telemetry structure.
ApplicationStatusValues == {PyInt(0), PyInt(EUI_CONNECTED + SYNC_MODE), PyBool(1)}
StatusWordValues ==
    {PyList(Rep(0, NUM_STRUT)), PyList(Rep(STATUS_WORD_DISABLED, NUM_STRUT)),
     PyTuple(Rep(STATUS_WORD_DISABLED, NUM_STRUT))}
LatchingFaultValues == {PyList(Rep(0, NUM_STRUT)), PyList(Rep(1, NUM_STRUT))}
InputPinValues == {PyList(Rep(0, NUM_DRIVE)), PyTuple(Rep(INPUT_PIN_STATES, NUM_DRIVE))}

ReportState ==
    \E source \in {0, 1}, state \in {0, 1}, substate_enabled \in {0, 1} :
        Reported(report_state(source, state, substate_enabled))

ReportApplicationStatus ==
    \E status \in ApplicationStatusValues : Reported(report_application_status(status))

ReportDriveStatus ==
    \E status_word \in StatusWordValues, latching_fault \in LatchingFaultValues,
       input_pin \in InputPinValues :
        Reported(report_drive_status(status_word, latching_fault,
                                     PyList(Rep(0, NUM_STRUT)), input_pin))

NextModel ==
    \/ ReportState
    \/ ReportApplicationStatus
    \/ ReportDriveStatus

SpecModel == Init /\ [][NextModel]_vars

\* The signal of field f was emitted with value v by the last report.
Emitted(signals, f, v) == \E i \in 1..Len(signals) : signals[i] = <<f, v>>
EmittedField(signals, f) == \E i \in 1..Len(signals) : signals[i][1] = f

\* Field i of the call has a value whose type is not the type of the status.
TypeDiffers(status, call, i) == call[i][2].type # status[call[i][1]].type

\* C29 as stated: in every report, for every reported field: if the type of
\* the value differs from the type of the cached value, TypeError is raised,
\* nothing is emitted for the field and the cache is unchanged; otherwise the
\* signal is emitted iff the value differs from the cached value (so
\* repeating a value emits nothing) and the cache holds the value after the
\* call.
C29_CompareAndNotify ==
    [][ (model_status' # model_status) =>
            \A i \in 1..Len(model_status'.call) :
                LET f == model_status'.call[i][1]
                    v == model_status'.call[i][2]
                    old == model_status.status[f]
                IN IF TypeDiffers(model_status.status, model_status'.call, i)
                   THEN /\ model_status'.raised
                        /\ ~EmittedField(model_status'.signals, f)
                        /\ model_status'.status[f] = old
                   ELSE /\ Emitted(model_status'.signals, f, v) <=> (v # old)
                        /\ model_status'.status[f] = v ]_vars

\* C29 (amended): as stated for every field up to the first one whose value
\* has another type than the cached value; the fields reported after that
\* one in the same call are not compared: nothing is emitted for them and
\* their cache is unchanged.
C29_CompareUntilTypeError ==
    [][ (model_status' # model_status) =>
            \A i \in 1..Len(model_status'.call) :
                LET f == model_status'.call[i][1]
                    v == model_status'.call[i][2]
                    old == model_status.status[f]
                IN IF \E j \in 1..(i - 1) :
                          TypeDiffers(model_status.status, model_status'.call, j)
                   THEN /\ ~EmittedField(model_status'.signals, f)
                        /\ model_status'.status[f] = old
                   ELSE IF TypeDiffers(model_status.status, model_status'.call, i)
                   THEN /\ model_status'.raised
                        /\ ~EmittedField(model_status'.signals, f)
                        /\ model_status'.status[f] = old
                   ELSE /\ Emitted(model_status'.signals, f, v) <=> (v # old)
                        /\ EmittedField(model_status'.signals, f) <=> (v # old)
                        /\ model_status'.status[f] = v ]_vars

\* A drive status was reported with a tuple as input pin states after a new
\* status word and a new latching fault: the first two were emitted and
\* cached, the last raised TypeError.
C29_Witness ==
    /\ model_status.raised
    /\ Len(model_status.call) = 4
    /\ model_status.call[1][2].type = "list"
    /\ model_status.call[2][2].type = "list"
    /\ model_status.call[1][2] = PyList(Rep(STATUS_WORD_DISABLED, NUM_STRUT))
    /\ model_status.call[2][2] = PyList(Rep(1, NUM_STRUT))
    /\ model_status.call[4][2].type = "tuple"
    /\ Len(model_status.signals) = 2
    /\ model_status.status.status_word = model_status.call[1][2]
    /\ model_status.status.latching_fault = model_status.call[2][2]
    /\ model_status.status.input_pin = PyList(Rep(0, NUM_DRIVE))

(***************************************************************************)
(* The in-motion flag of the GUI model (model.py): telemetry_callback       *)
(* reports a telemetry sample; model_status.in_motion is the flag it emits  *)
(* with the position.                                                       *)
(***************************************************************************)
\* a | b and a & b of Python, for non-negative ints.
RECURSIVE BitwiseOr(_, _)
BitwiseOr(a, b) ==
    IF a = 0 THEN b
    ELSE IF b = 0 THEN a
    ELSE 2 * BitwiseOr(a \div 2, b \div 2)
            + (IF a % 2 = 1 \/ b % 2 = 1 THEN 1 ELSE 0)

RECURSIVE BitwiseAnd(_, _)
BitwiseAnd(a, b) ==
    IF a = 0 \/ b = 0 THEN 0
    ELSE 2 * BitwiseAnd(a \div 2, b \div 2)
            + (IF a % 2 = 1 /\ b % 2 = 1 THEN 1 ELSE 0)

\* status_total after the first n status words.
RECURSIVE status_total(_, _)
status_total(status_words, n) ==
    IF n = 0 THEN 0
    ELSE BitwiseOr(status_total(status_words, n - 1), status_words[n])

\* Mutant: only the status word of the first strut is looked at.
_is_in_motion_first_word(status_words) ==
    BitwiseAnd(status_words[1], 16384) # 0

\* 0x4000 is bit 14 (amplifier move status).
_is_in_motion(status_words) ==
    BitwiseAnd(status_total(status_words, Len(status_words)), 16384) # 0

\* The int values of the enums of the telemetry.
ControllerStateValue(state) ==
    CASE state = "STANDBY" -> 0
      [] state = "ENABLED" -> 1
      [] OTHER -> 2

EnabledSubstateValue(substate) ==
    IF substate = "STATIONARY" THEN 0 ELSE 1

\* The reports of telemetry_callback for the telemetry t, in program order,
\* and the in-motion flag of its position report.
telemetry_callback(t) ==
    \E call \in {report_state(IF command_source(t) = "CSC" THEN 1 ELSE 0,
                              ControllerStateValue(t.state),
                              EnabledSubstateValue(t.enabled_substate))
                 \o report_application_status(PyInt(t.application_status))
                 \o report_drive_status(
                        PyList(t.status_word),
                        PyList(t.latching_fault_status_register),
                        PyList(t.copley_fault_status_register),
                        PyList(t.input_pin_states))} :
      \E r \in {report(model_status.status, call)} :
        /\ model_status' = [status |-> r.status, call |-> call,
                            signals |-> r.signals, raised |-> r.raised,
                            in_motion |-> _is_in_motion(t.status_word)]
        /\ UNCHANGED <<telemetry, config, commanded_position, is_csc_commander,
                       command_status, move_start, hexapod_type, telemetry_raised,
                       in_write_config, float64_move, control_panel>>

\* The telemetry of the mock controller as it stands is delivered.
TelemetryCallback == telemetry_callback(telemetry)

\* Status words of a controller whose struts differ: none with bit 14, only
\* the fourth, only the last, all of them, and only bit 15.
StatusWordSamples ==
    { Rep(STATUS_WORD_DISABLED, NUM_STRUT),
      [Rep(STATUS_WORD_ENABLED, NUM_STRUT) EXCEPT ![4] = @ + AMPLIFIER_MOVE_BIT],
      [Rep(0, NUM_STRUT) EXCEPT ![NUM_STRUT] = AMPLIFIER_MOVE_BIT],
      Rep(STATUS_WORD_ENABLED + AMPLIFIER_MOVE_BIT, NUM_STRUT),
      [Rep(STATUS_WORD_ENABLED, NUM_STRUT) EXCEPT ![1] = @ + 2 * AMPLIFIER_MOVE_BIT] }

\* A telemetry with other status words is delivered.
TelemetryCallbackSample ==
    \E status_words \in StatusWordSamples :
        telemetry_callback([telemetry EXCEPT !.status_word = status_words])

NextCallback ==
    \/ Move
    \/ Stop
    \/ PositionSet(PositionParamsAll)
    \/ Enable
    \/ UpdateTelemetry
    \/ TelemetryCallback
    \/ TelemetryCallbackSample

SpecCallback == Init /\ [][NextCallback]_vars

\* Some status word of the sequence has bit 14 set.
SomeMoveBit(status_words) ==
    \E i \in 1..Len(status_words) : HasBit(status_words[i], AMPLIFIER_MOVE_BIT)

\* C30: the in-motion flag reported for a telemetry sample is true iff at
\* least one of the six status words of the sample has bit 14 (0x4000) set.
\* With the mock controller: a telemetry cycle leaves bit 14 in the status
\* words iff the sub-state at the end of the cycle is MOVING_POINT_TO_POINT,
\* and no command changes the status words, so the flag of a sample is that
\* of the cycle that produced it, whatever the sub-state is by then.
C30_InMotion ==
    [][ /\ (model_status' # model_status) =>
              /\ Len(model_status'.call) = 8
              /\ model_status'.call[5][1] = "status_word"
              /\ Len(model_status'.call[5][2].v) = NUM_STRUT
              /\ model_status'.in_motion <=> SomeMoveBit(model_status'.call[5][2].v)
        /\ TelemetryCallback =>
              (model_status'.in_motion <=> SomeMoveBit(telemetry.status_word))
        /\ UpdateTelemetry => (SomeMoveBit(telemetry'.status_word) <=> Moving')
        /\ (telemetry'.status_word # telemetry.status_word) => UpdateTelemetry
      ]_vars

\* A sample delivered after a stop command and before the next cycle: it
\* reports the sub-state STATIONARY and in-motion.
C30_Witness ==
    /\ command_status.method = "do_stop"
    /\ Stationary
    /\ model_status.in_motion
    /\ Len(model_status.call) = 8
    /\ model_status.call[3] = <<"substate_enabled", PyInt(0)>>
    /\ model_status.call[5][2] = PyList(telemetry.status_word)

\* A sample in which only the fourth strut has bit 14 set was reported as
\* in motion.
C30_WitnessOneStrut ==
    /\ model_status.in_motion
    /\ Len(model_status.call) = 8
    /\ ~HasBit(model_status.call[5][2].v[1], AMPLIFIER_MOVE_BIT)
    /\ HasBit(model_status.call[5][2].v[4], AMPLIFIER_MOVE_BIT)
====
